---- MODULE Spec2Model ----
(***************************************************************************)
(* A model of smartcompare-ai's backend: the classification provider chain *)
(* (SmartLLMService), its response parser, the crawl orchestrator          *)
(* (CrawlerManager), the search pipeline (searchService) and the           *)
(* classification cache (ClassificationCache).                             *)
(*                                                                         *)
(* Conventions.  JavaScript arrays are sequences; the JavaScript index i   *)
(* is position i + 1 of the sequence.  A product keeps the fields the      *)
(* modelled code reads: id, name, price, platform.  A returned category    *)
(* keeps name, totalProducts, priceRange, platforms and products.          *)
(***************************************************************************)
EXTENDS Integers, Sequences, FiniteSets, TLC

(***************************************************************************)
(* Bounds of the model.                                                    *)
(***************************************************************************)
MaxProducts == 2      \* longest product batch
MaxCats == 2          \* most categories in a provider's JSON answer
MaxIndexes == 2       \* most productIndexes entries in one answer (all categories together)
MaxNames == 2         \* most "name": "..." matches in an answer's text
MaxRetries == 2       \* largest configured maxRetries of a provider
MaxTime == 3          \* last clock reading, in milliseconds
MaxTtl == 2           \* largest configured ttl of the classification cache, in milliseconds
MaxCacheSize == 1     \* largest configured maxSize of the classification cache
MaxCacheCalls == 3    \* most set and get calls on the classification cache
MaxFetched == 1       \* most products one platform's crawler returns

(***************************************************************************)
(* Generic helpers.                                                        *)
(***************************************************************************)
Range(s) == {s[i] : i \in DOMAIN s}

RECURSIVE SumSeq(_)
SumSeq(s) == IF s = <<>> THEN 0 ELSE Head(s) + SumSeq(Tail(s))

\* Math.min and Math.max of a non-empty list.
MinSeq(s) == CHOOSE x \in Range(s) : \A y \in Range(s) : x <= y

MaxSeq(s) == CHOOSE x \in Range(s) : \A y \in Range(s) : x >= y

\* Array.prototype.slice(start, end) with 0 <= start, JavaScript indices
Slice(s, start, end) ==
  LET e == IF end > Len(s) THEN Len(s) ELSE end
  IN  IF start >= e THEN <<>> ELSE [i \in 1..(e - start) |-> s[start + i]]

\* Math.round of the non-negative quotient num / den
RoundDiv(num, den) == (2 * num + den) \div (2 * den)

\* Math.ceil of the non-negative quotient num / den
CeilDiv(num, den) == (num + den - 1) \div den

\* JavaScript numbers (IEEE 754 binary64), as far as fallbackParseJSON
\* computes with them: the quotient of two integers, its product with an
\* integer, Math.floor.  A positive number is its 53-bit significand, kept in
\* three limbs hi (17 bits, first bit 1), mid and lo (18 bits each), and the
\* power of two of its first bit: (hi * 2^36 + mid * 2^18 + lo) * 2^(exp - 52).
PowersOfTwo ==
  <<1, 2, 4, 8, 16, 32, 64, 128, 256, 512, 1024, 2048, 4096, 8192, 16384, 32768, 65536,
    131072, 262144, 524288, 1048576, 2097152, 4194304, 8388608, 16777216, 33554432,
    67108864, 134217728, 268435456, 536870912, 1073741824>>

Pow2(e) == PowersOfTwo[e + 1]

LimbBits == 18

Limb == 262144

Double(hi, mid, lo, exp) == [hi |-> hi, mid |-> mid, lo |-> lo, exp |-> exp]

DoubleZero == Double(0, 0, 0, 0)

\* Round to nearest, ties to even: the significand hi, mid, lo is followed
\* by the bit guard and, when sticky, by further non-zero bits.
RoundToDouble(hi, mid, lo, exp, guard, sticky) ==
  IF ~(guard = 1 /\ (sticky \/ lo % 2 = 1)) THEN Double(hi, mid, lo, exp)
  ELSE IF lo + 1 < Limb THEN Double(hi, mid, lo + 1, exp)
  ELSE IF mid + 1 < Limb THEN Double(hi, mid + 1, 0, exp)
  ELSE IF hi + 1 < Pow2(LimbBits - 1) THEN Double(hi + 1, 0, 0, exp)
  ELSE Double(Pow2(LimbBits - 2), 0, 0, exp + 1)

\* n / k for integers 0 <= n and 0 < k, both below 2^12
DoubleQuotient(n, k) ==
  IF n = 0 THEN DoubleZero
  ELSE LET up == CHOOSE s \in 0..12 : n * Pow2(s) >= k /\ (s = 0 \/ n * Pow2(s - 1) < k)
           down == CHOOSE s \in 0..12 : k * Pow2(s) <= n * Pow2(up) /\ k * Pow2(s + 1) > n * Pow2(up)
           num == n * Pow2(up)
           den == k * Pow2(down)
           t1 == (num - den) * Pow2(LimbBits - 2)
           t2 == (t1 % den) * Limb
           t3 == (t2 % den) * Limb
           t4 == (t3 % den) * 2
       IN  RoundToDouble(Pow2(LimbBits - 2) + (t1 \div den), t2 \div den, t3 \div den,
                         down - up, t4 \div den, t4 % den # 0)

\* d * i for an integer 0 <= i below 2^12
DoubleTimes(d, i) ==
  IF d = DoubleZero \/ i = 0 THEN DoubleZero
  ELSE LET lo == d.lo * i
           mid == d.mid * i + (lo \div Limb)
           hi == d.hi * i + (mid \div Limb)
           s == CHOOSE e \in 0..12 : hi < Pow2(LimbBits - 1 + e) /\ hi >= Pow2(LimbBits - 2 + e)
           m == (hi % Pow2(s)) * Limb + (mid % Limb)
           l == (m % Pow2(s)) * Limb + (lo % Limb)
           dropped == l % Pow2(s)
       IN  IF s = 0 THEN Double(hi, mid % Limb, lo % Limb, d.exp)
           ELSE RoundToDouble(hi \div Pow2(s), m \div Pow2(s), l \div Pow2(s), d.exp + s,
                              dropped \div Pow2(s - 1), dropped % Pow2(s - 1) # 0)

\* Math.floor of a number below 2^17
DoubleFloor(d) ==
  IF d = DoubleZero \/ d.exp < 0 THEN 0 ELSE d.hi \div Pow2(LimbBits - 2 - d.exp)

\* Math.floor((n / k) * i)
FloorShare(n, k, i) == DoubleFloor(DoubleTimes(DoubleQuotient(n, k), i))

(***************************************************************************)
(* Products.  A batch is what the crawl hands to classification: product   *)
(* i of the batch has id i (the crawlers give every product an id).        *)
(***************************************************************************)
ListingCycle ==
  <<[name |-> "apple phone", price |-> 300, platform |-> "pchome"],
    [name |-> "phone case", price |-> 125, platform |-> "momo"],
    [name |-> "turtle tank", price |-> 0, platform |-> "momo"]>>

MkProduct(i, l) ==
  [id |-> i, name |-> l.name, price |-> l.price, platform |-> l.platform]

\* One batch of each length, its listings taken in turn.
SampleBatch(n) == [i \in 1..n |-> MkProduct(i, ListingCycle[((i - 1) % 3) + 1])]

\* Batches whose first listing came back without a price (the crawlers give
\* price 0 to a listing whose price they could not read).
UnpricedCycle ==
  <<[name |-> "phone case", price |-> 0, platform |-> "pchome"],
    [name |-> "phone case", price |-> 125, platform |-> "momo"]>>

UnpricedBatch(n) == [i \in 1..n |-> MkProduct(i, UnpricedCycle[((i - 1) % 2) + 1])]

SampleBatches ==
  {SampleBatch(n) : n \in 0..MaxProducts} \cup {UnpricedBatch(n) : n \in 1..MaxProducts}

CatName(base, i) == [base |-> base, index |-> i]

\* Product ids.  The ids a crawler generates are positive; a record without
\* an id field has NoId; the ids classification makes up for a record
\* without one are negative: `product_${index}` in the structured parse,
\* and `product_` followed by Math.random() digits elsewhere, all of which
\* are written as the one token RandomProductId.
NoId == 0

ProductIndexId(index) == 0 - (index + 2)

RandomProductId == 0 - 1

(***************************************************************************)
(* createCategoryFromProducts and the price statistics it shares with      *)
(* parseClassificationResult.                                              *)
(***************************************************************************)
PositivePrices(prods) ==
  LET ps == [i \in 1..Len(prods) |-> prods[i].price]
  IN  SelectSeq(ps, LAMBDA x : x > 0)

PriceStats(prods) ==
  LET prices == PositivePrices(prods)
  IN  [min |-> IF Len(prices) > 0 THEN MinSeq(prices) ELSE 0,
       max |-> IF Len(prices) > 0 THEN MaxSeq(prices) ELSE 0,
       avg |-> IF Len(prices) > 0 THEN RoundDiv(SumSeq(prices), Len(prices)) ELSE 0]

createCategoryFromProducts(categoryName, prods) ==
  [name |-> categoryName,
   totalProducts |-> Len(prods),
   priceRange |-> PriceStats(prods),
   platforms |-> {prods[i].platform : i \in 1..Len(prods)},
   products |-> [i \in 1..Len(prods) |->
                   [prods[i] EXCEPT !.id = IF @ # NoId THEN @ ELSE RandomProductId]]]

(***************************************************************************)
(* A provider's answer text, by what the parser's stages make of it:       *)
(*   braces         /\{[\s\S]*\}/ matches the text                         *)
(*   parse          "strict": JSON.parse succeeds; "repaired": it fails    *)
(*                  and the repaired text parses; "fail": both fail        *)
(*   hasCategories  the parsed value has a categories array                *)
(*   cats           the entries of that array; an entry is                 *)
(*                    "indexes": productIndexes is a list of integers      *)
(*                    "throws":  building its products throws (e.g.        *)
(*                               productIndexes is not an array)           *)
(*                    "null":    the entry itself is null                  *)
(*   names          number of matches of /"name"\s*:\s*"([^"]+)"/g         *)
(***************************************************************************)
EntryKinds == {"indexes", "throws", "null"}

\* The shapes of a categories array: per entry its kind and the length of
\* its productIndexes; at most c entries and t index values in all.
Shapes(c, t) ==
  UNION {{[lens |-> ls, kinds |-> ks] :
            ls \in {l \in [1..cc -> 0..t] : SumSeq(l) <= t},
            ks \in [1..cc -> EntryKinds]} :
         cc \in 0..c}

WellShaped(sh) == \A i \in 1..Len(sh.lens) : sh.kinds[i] # "indexes" => sh.lens[i] = 0

\* The categories array of shape sh whose index values, read in order, are flat.
CatsOf(sh, flat) ==
  [i \in 1..Len(sh.lens) |->
     LET off == SumSeq(SubSeq(sh.lens, 1, i - 1))
     IN  [kind |-> sh.kinds[i], idx |-> SubSeq(flat, off + 1, off + sh.lens[i])]]

HasNullEntry(cats) == \E i \in 1..Len(cats) : cats[i].kind = "null"

TextResponse(hasBraces, k) ==
  [braces |-> hasBraces, parse |-> "fail", hasCategories |-> FALSE, cats |-> <<>>, names |-> k]

ObjectResponse(p, k) ==
  [braces |-> TRUE, parse |-> p, hasCategories |-> FALSE, cats |-> <<>>, names |-> k]

JsonResponse(p, cs, k) ==
  [braces |-> TRUE, parse |-> p, hasCategories |-> TRUE, cats |-> cs, names |-> k]

ParsedKinds == {"strict", "repaired"}

\* The answers whose text is not a categories object.
PlainResponses ==
  {TextResponse(b, k) : b \in BOOLEAN, k \in 0..MaxNames}
  \cup {ObjectResponse(p, k) : p \in ParsedKinds, k \in 0..MaxNames}

\* The answers that parse to a categories array over a batch of n products.
JsonResponses(n, c, t) ==
  UNION {UNION {{JsonResponse(p, CatsOf(sh, flat), k) :
                   p \in ParsedKinds,
                   k \in IF "null" \in Range(sh.kinds) THEN 0..MaxNames ELSE {Len(sh.lens)}} :
                flat \in [1..SumSeq(sh.lens) -> -1..n]} :
         sh \in {x \in Shapes(c, t) : WellShaped(x)}}

(***************************************************************************)
(* fallbackParseJSON: the degraded parser.                                 *)
(***************************************************************************)
fallbackParseJSON(resp, originalProducts) ==
  LET n == Len(originalProducts)
      k == resp.names
  IN  IF k > 0
      THEN [index \in 1..k |->
              createCategoryFromProducts(
                CatName("extracted", index),
                Slice(originalProducts, FloorShare(n, k, index - 1), FloorShare(n, k, index)))]
      ELSE <<createCategoryFromProducts(CatName("all products", 0), originalProducts)>>

(***************************************************************************)
(* parseClassificationResult.                                              *)
(***************************************************************************)
\* An index filter that also drops index 0.
ValidIndexFromOne(index, n) == index >= 1 /\ index < n

ValidIndex(index, n) == index >= 0 /\ index < n

CategoryFromIndexes(entry, index, originalProducts) ==
  LET n == Len(originalProducts)
      kept == SelectSeq(entry.idx, LAMBDA x : ValidIndex(x, n))
      categoryProducts ==
        [j \in 1..Len(kept) |->
           [originalProducts[kept[j] + 1] EXCEPT
              !.id = IF @ # NoId THEN @ ELSE ProductIndexId(kept[j])]]
  IN  [name |-> CatName("llm", index),
       totalProducts |-> Len(categoryProducts),
       priceRange |-> PriceStats(categoryProducts),
       platforms |-> {categoryProducts[j].platform : j \in 1..Len(categoryProducts)},
       products |-> categoryProducts]

CategoryFromError(index, nCats, originalProducts) ==
  createCategoryFromProducts(
    CatName("llm", index),
    Slice(originalProducts, 0, CeilDiv(Len(originalProducts), nCats)))

parseClassificationResult(resp, originalProducts) ==
  IF ~resp.braces THEN fallbackParseJSON(resp, originalProducts)
  ELSE IF resp.parse = "fail" THEN fallbackParseJSON(resp, originalProducts)
  ELSE IF ~resp.hasCategories THEN fallbackParseJSON(resp, originalProducts)
  ELSE IF HasNullEntry(resp.cats) THEN fallbackParseJSON(resp, originalProducts)
  ELSE [index \in 1..Len(resp.cats) |->
          IF resp.cats[index].kind = "indexes"
          THEN CategoryFromIndexes(resp.cats[index], index, originalProducts)
          ELSE CategoryFromError(index, Len(resp.cats), originalProducts)]

(***************************************************************************)
(* keywordMatch and useKeywordMatching.  KEYWORD_RULES (config/             *)
(* classification) is a table of brands and of category rules; a name      *)
(* "includes" a keyword when the keyword is one of its words.              *)
(***************************************************************************)
WordsOf(name) ==
  CASE name = "apple phone" -> {"apple", "phone"}
    [] name = "phone case" -> {"phone", "case"}
    [] name = "turtle tank" -> {"turtle", "tank"}
    [] OTHER -> {}

Queries == {"phone", "turtle"}

KEYWORD_RULES ==
  [BRANDS |-> <<[brand |-> "apple", category |-> "Apple"]>>,
   RULES |-> <<[keywords |-> {"phone"},
                subcategories |-> <<[name |-> "phone accessories", keywords |-> {"case"}]>>,
                category |-> "phones"]>>]

DefaultCategory == "other products"

\* The first position of flags that holds TRUE, 0 when there is none.
FirstTrue(flags) ==
  IF \E i \in 1..Len(flags) : flags[i]
  THEN CHOOSE i \in 1..Len(flags) : flags[i] /\ \A j \in 1..(i - 1) : ~flags[j]
  ELSE 0

keywordMatch(productName, query) ==
  LET words == WordsOf(productName)
      brands == KEYWORD_RULES.BRANDS
      rules == KEYWORD_RULES.RULES
      brand == FirstTrue([i \in 1..Len(brands) |-> brands[i].brand \in words])
      rule == FirstTrue([i \in 1..Len(rules) |-> rules[i].keywords \cap words # {}])
  IN  IF query = "turtle" /\ words \cap {"tank", "filter", "lamp", "feed"} # {}
      THEN "pet supplies"
      ELSE IF brand # 0 THEN brands[brand].category
      ELSE IF rule # 0
      THEN LET subs == rules[rule].subcategories
               sub == FirstTrue([i \in 1..Len(subs) |-> subs[i].keywords \cap words # {}])
           IN  IF sub # 0 THEN subs[sub].name ELSE rules[rule].category
      ELSE DefaultCategory

\* The labels of the batch in order of first appearance (the insertion
\* order of categoryGroups).
RECURSIVE LabelsInOrder(_, _)
LabelsInOrder(prods, query) ==
  IF prods = <<>> THEN <<>>
  ELSE LET front == LabelsInOrder(SubSeq(prods, 1, Len(prods) - 1), query)
           label == keywordMatch(prods[Len(prods)].name, query)
       IN  IF \E i \in 1..Len(front) : front[i] = label THEN front ELSE Append(front, label)

\* priceRange of a keyword group: min and max over the truthy prices, avg
\* the rounded sum of all prices over the number of products.
KeywordPriceRange(prods) ==
  LET all == [i \in 1..Len(prods) |-> prods[i].price]
      truthy == SelectSeq(all, LAMBDA x : x # 0)
  IN  [min |-> IF Len(truthy) > 0 THEN MinSeq(truthy) ELSE 0,
       max |-> MaxSeq(<<0>> \o truthy),
       avg |-> RoundDiv(SumSeq(all), Len(prods))]

\* Grouping that keeps only the latest product of each label.
useKeywordMatchingLatest(prods, query) ==
  LET labels == LabelsInOrder(prods, query)
  IN  [g \in 1..Len(labels) |->
         LET members == SelectSeq(prods, LAMBDA p : keywordMatch(p.name, query) = labels[g])
             latest == <<members[Len(members)]>>
         IN  [name |-> CatName(labels[g], 0),
              totalProducts |-> Len(members),
              priceRange |-> KeywordPriceRange(members),
              platforms |-> {members[i].platform : i \in 1..Len(members)},
              products |-> latest]]

useKeywordMatching(prods, query) ==
  LET labels == LabelsInOrder(prods, query)
  IN  [g \in 1..Len(labels) |->
         LET members == SelectSeq(prods, LAMBDA p : keywordMatch(p.name, query) = labels[g])
         IN  [name |-> CatName(labels[g], 0),
              totalProducts |-> Len(members),
              priceRange |-> KeywordPriceRange(members),
              platforms |-> {members[i].platform : i \in 1..Len(members)},
              products |-> members]]

(***************************************************************************)
(* getLLMConfig and validateLLMConfig: the configuration the service is    *)
(* built with, from the environment settings.                              *)
(***************************************************************************)
ProviderModes == {"auto", "gemini", "ollama", "keyword"}

FallbackOrders == {<<"gemini", "ollama", "keyword">>, <<"ollama", "gemini", "keyword">>}

Environments ==
  [LLM_PROVIDER : ProviderModes,
   LLM_FALLBACK_ORDER : FallbackOrders,
   GEMINI_ENABLED : BOOLEAN,
   GEMINI_API_KEY : BOOLEAN,
   OLLAMA_ENABLED : BOOLEAN,
   GEMINI_MAX_RETRIES : 1..MaxRetries,
   OLLAMA_MAX_RETRIES : 1..MaxRetries]

\* The defaults of OLLAMA_RETRY_DELAY and GEMINI_RETRY_DELAY and of
\* LLM_FALLBACK_THRESHOLD, which the environment leaves unset, and the wait
\* of useGemini after an error that is no rate limit; delays in milliseconds.
DefaultOllamaRetryDelay == 5000

DefaultGeminiRetryDelay == 60000

DefaultFallbackThreshold == 3

GeminiErrorDelay == 5000

validateLLMConfig(config) ==
  LET geminiOn == config.gemini.enabled /\ config.gemini.apiKey
      available == (IF config.ollama.enabled THEN {"ollama"} ELSE {})
                   \cup (IF geminiOn THEN {"gemini"} ELSE {})
                   \cup {"keyword"}
      order == SelectSeq(config.fallbackOrder, LAMBDA p : p \in available)
  IN  [config EXCEPT !.gemini.enabled = geminiOn,
                     !.fallbackOrder = IF order = <<>> THEN <<"keyword">> ELSE order]

getLLMConfig(env) ==
  validateLLMConfig(
    [provider |-> env.LLM_PROVIDER,
     fallbackOrder |-> env.LLM_FALLBACK_ORDER,
     fallbackThreshold |-> DefaultFallbackThreshold,
     ollama |-> [enabled |-> env.OLLAMA_ENABLED, maxRetries |-> env.OLLAMA_MAX_RETRIES,
                 retryDelay |-> DefaultOllamaRetryDelay],
     gemini |-> [enabled |-> env.GEMINI_ENABLED, apiKey |-> env.GEMINI_API_KEY,
                 maxRetries |-> env.GEMINI_MAX_RETRIES,
                 retryDelay |-> DefaultGeminiRetryDelay]])

\* The fallback order walked from its end.
ProvidersReversed(config) ==
  IF config.provider = "auto"
  THEN [i \in 1..Len(config.fallbackOrder) |->
          config.fallbackOrder[Len(config.fallbackOrder) + 1 - i]]
  ELSE <<config.provider>>

\* A forced provider backed by the keyword rules.
ProvidersWithKeyword(config) ==
  IF config.provider = "auto" THEN config.fallbackOrder
  ELSE IF config.provider = "keyword" THEN <<"keyword">>
  ELSE <<config.provider, "keyword">>

\* The providers one categorizeSearchResults call goes through.
ProvidersOf(config) ==
  IF config.provider = "auto" THEN config.fallbackOrder ELSE <<config.provider>>

(***************************************************************************)
(* State.                                                                  *)
(***************************************************************************)
VARIABLES
  parseBatch,     \* parser run: the original batch
  parseResp,      \* parser run: the provider's answer
  parseOut,       \* parser run: the returned categories
  parsePc,        \* parser run: "ready" | "done"
  config,         \* SmartLLMService.config
  failureCount,   \* SmartLLMService.failureCount: provider -> consecutive failures
  stats,          \* SmartLLMService.performanceStats: provider -> counters
  healthFresh,    \* lastHealthCheck of ollama is less than healthCheckInterval old
  pc,             \* categorizeSearchResults: "idle" | "loop" | "gemini" | "ollamaHealth"
                  \*                          | "ollama" | "done"
  products,       \* the call's batch
  searchQuery,    \* the call's query
  pi,             \* position in the providers list
  attempt,        \* the provider's attempt counter
  result,         \* the value the call returned
  tried,          \* history: providers handed to tryProvider, in order
  netLog,         \* history: generate requests sent, by provider, in order
  probes,         \* history: health probes sent by the call
  answered,       \* history: the answers parsed by the call
  failLog,        \* history: the providers that failed in the call, and why
  clock,          \* Date.now()
  cache,          \* ClassificationCache.cache: the entries in Map order
  cacheConfig,    \* ClassificationCache.config
  cacheStats,     \* ClassificationCache.stats
  lastCall,       \* history: the last call on the classification cache
  chain,          \* the providers the running classification goes through
  spc,            \* searchService.searchProducts: "idle" | "crawl" | "done"
  request,        \* its arguments
  searchOut,      \* what it returned or threw
  searchCache,    \* searchService's searchCache: the entries in Map order
  cpc,            \* CrawlerManager.searchProducts: "idle" | "fetch" | "categorize" | "done"
  settled,        \* per requested platform, how its searchSinglePlatform promise settled
  crawlResult,    \* what CrawlerManager.searchProducts returned
  served,         \* history: the last call on searchService, taken as a whole,
                  \*          and the quarters of an hour since
  made,           \* history: per key, the age of the latest searchProducts call
                  \*          that returned, -1 when none is less than CACHE_TTL old
  waited,         \* history: the last wait of a retry loop of the call
  rateLimited,    \* history: every generateContent request of the call was answered 429
  settleOrder,    \* history: the requested platforms in the order their promises settled
  thisBrowser,    \* this.browser of one crawler: a handle, or null
  thisPage,       \* this.page of that crawler: a handle, or null
  chrome,         \* per handle puppeteer has given out, whether it is still open
  web,            \* per searchViaWeb call on that crawler, where it stands
  jsonString,     \* repairJSON: its argument
  parsedData,     \* repairJSON: what it returned or threw
  calls,          \* per concurrent categorizeSearchResults call, where it stands
  recorded,       \* history: per provider, the recordSuccess and recordFailure calls made
  ollamaCalls,    \* per useOllama call on the service, where it stands
  lastHealthCheck, \* SmartLLMService.lastHealthCheck of ollama
  probedAt,       \* history: the latest time a probe that was answered 200 was sent at
  crawlerHistory, \* CrawlerService.crawlerHistory: the tasks, the newest first
  executions,     \* per crawler id, where its simulated execution stands
  stopOut         \* what the last stopCrawler call returned or threw

parseVars == <<parseBatch, parseResp, parseOut, parsePc>>

serviceVars == <<config, failureCount, stats, healthFresh>>

callVars == <<pc, products, searchQuery, pi, attempt, result, tried, netLog, probes, answered,
              failLog, chain, waited, rateLimited>>

llmVars == <<config, failureCount, stats, healthFresh,
             pc, products, searchQuery, pi, attempt, result, tried, netLog, probes, answered,
             failLog, chain, waited, rateLimited>>

cacheVars == <<clock, cache, cacheConfig, cacheStats, lastCall>>

searchVars == <<spc, request, searchOut, searchCache, cpc, settled, crawlResult, served, made,
                settleOrder>>

webVars == <<thisBrowser, thisPage, chrome, web>>

repairVars == <<jsonString, parsedData>>

concurrentVars == <<calls, recorded>>

probeVars == <<ollamaCalls, lastHealthCheck, probedAt>>

taskVars == <<crawlerHistory, executions, stopOut>>

nonLLMVars == <<parseBatch, parseResp, parseOut, parsePc,
                clock, cache, cacheConfig, cacheStats, lastCall,
                spc, request, searchOut, searchCache, cpc, settled, crawlResult, served, made,
                settleOrder, thisBrowser, thisPage, chrome, web, jsonString, parsedData,
                calls, recorded, ollamaCalls, lastHealthCheck, probedAt,
                crawlerHistory, executions, stopOut>>

vars == <<parseBatch, parseResp, parseOut, parsePc,
          config, failureCount, stats, healthFresh,
          pc, products, searchQuery, pi, attempt, result, tried, netLog, probes, answered,
          failLog, chain, waited, rateLimited,
          clock, cache, cacheConfig, cacheStats, lastCall,
          spc, request, searchOut, searchCache, cpc, settled, crawlResult, served, made,
          settleOrder, thisBrowser, thisPage, chrome, web, jsonString, parsedData,
          calls, recorded, ollamaCalls, lastHealthCheck, probedAt,
                crawlerHistory, executions, stopOut>>

(***************************************************************************)
(* The parser applied to every batch and answer within the bounds.         *)
(***************************************************************************)
ParseInit ==
  /\ parseBatch \in SampleBatches
  /\ \/ parseResp \in PlainResponses
     \/ \E sh \in Shapes(MaxCats, MaxIndexes) :
          /\ WellShaped(sh)
          /\ \E flat \in [1..SumSeq(sh.lens) -> -1..Len(parseBatch)] :
             \E p \in ParsedKinds :
             \E k \in IF "null" \in Range(sh.kinds) THEN 0..MaxNames ELSE {Len(sh.lens)} :
                parseResp = JsonResponse(p, CatsOf(sh, flat), k)
  /\ parseOut = <<>>
  /\ parsePc = "ready"

ParseQuiet ==
  /\ parseBatch = <<>>
  /\ parseResp = TextResponse(FALSE, 0)
  /\ parseOut = <<>>
  /\ parsePc = "ready"

Parse ==
  /\ parsePc = "ready"
  /\ parseOut' = parseClassificationResult(parseResp, parseBatch)
  /\ parsePc' = "done"
  /\ UNCHANGED <<parseBatch, parseResp>>
  /\ UNCHANGED webVars
  /\ UNCHANGED repairVars
  /\ UNCHANGED concurrentVars
  /\ UNCHANGED probeVars
  /\ UNCHANGED taskVars
  /\ UNCHANGED llmVars
  /\ UNCHANGED cacheVars
  /\ UNCHANGED searchVars

(***************************************************************************)
(* The parser applied to answers it cannot read as JSON, over longer       *)
(* batches and more extracted names.                                       *)
(***************************************************************************)
MaxDegradedProducts == 15   \* longest product batch given to the degraded parser
MaxDegradedNames == 11      \* most "name": "..." matches in an unreadable answer

DegradedInit ==
  /\ \E n \in 0..MaxDegradedProducts : parseBatch = SampleBatch(n)
  /\ \E b \in BOOLEAN, k \in 0..MaxDegradedNames : parseResp = TextResponse(b, k)
  /\ parseOut = <<>>
  /\ parsePc = "ready"

(***************************************************************************)
(* SmartLLMService: construction, and one categorizeSearchResults call     *)
(* taken from suspension point to suspension point.                        *)
(***************************************************************************)
Providers == {"gemini", "ollama", "keyword"}

NoResult == [success |-> FALSE, provider |-> "none", mode |-> "none", categories |-> <<>>]

FailedResult == [success |-> FALSE, provider |-> "none", mode |-> "failed", categories |-> <<>>]

\* The wait of a retry loop after the failed request number attempt.
Wait(provider, n, delay) == [provider |-> provider, attempt |-> n, delay |-> delay]

NoWait == Wait("none", 0, 0)

CallIdle ==
  /\ pc = "idle"
  /\ products = <<>>
  /\ searchQuery = "phone"
  /\ pi = 0
  /\ attempt = 0
  /\ result = NoResult
  /\ tried = <<>>
  /\ netLog = <<>>
  /\ probes = 0
  /\ answered = <<>>
  /\ failLog = <<>>
  /\ chain = <<>>
  /\ waited = NoWait
  /\ rateLimited = FALSE

LLMInit ==
  /\ \E env \in Environments : config = getLLMConfig(env)
  /\ failureCount = [p \in Providers |-> 0]
  /\ stats = [p \in Providers |-> [successCount |-> 0, totalRequests |-> 0]]
  /\ healthFresh = FALSE
  /\ CallIdle

LLMQuiet ==
  /\ config = getLLMConfig(CHOOSE env \in Environments : TRUE)
  /\ failureCount = [p \in Providers |-> 0]
  /\ stats = [p \in Providers |-> [successCount |-> 0, totalRequests |-> 0]]
  /\ healthFresh = FALSE
  /\ CallIdle

\* The answers a provider gives the chain about a batch of n products: every
\* answer that is no categories object, and one categories object of each
\* kind: all products in one category, one category per product, the last
\* product left out, the first product listed twice, an index past the end,
\* an entry whose products cannot be built, a null entry.
IndexesEntry(s) == [kind |-> "indexes", idx |-> s]

ChainJsonResponses(n) ==
  LET all == [i \in 1..n |-> i - 1]
  IN  {JsonResponse("strict", <<IndexesEntry(all)>>, 1),
       JsonResponse("repaired", [i \in 1..n |-> IndexesEntry(<<i - 1>>)], n),
       JsonResponse("strict", <<IndexesEntry(SubSeq(all, 1, n - 1))>>, 1),
       JsonResponse("strict", <<IndexesEntry(<<0>> \o all)>>, 1),
       JsonResponse("strict", <<IndexesEntry(Append(all, n))>>, 1),
       JsonResponse("strict", <<IndexesEntry(all), [kind |-> "throws", idx |-> <<>>]>>, 2),
       JsonResponse("strict", <<IndexesEntry(all), [kind |-> "null", idx |-> <<>>]>>, 1)}

\* The longest batch a classification is called with.
LongestBatch == IF 2 * MaxFetched > MaxProducts THEN 2 * MaxFetched ELSE MaxProducts

ChainResponsesOf == [n \in 0..LongestBatch |-> PlainResponses \cup ChainJsonResponses(n)]

\* recordSuccess, and the return of finalResult.
Succeed(provider, categories) ==
  /\ stats' = [stats EXCEPT ![provider].successCount = @ + 1,
                            ![provider].totalRequests = @ + 1]
  /\ failureCount' = [failureCount EXCEPT ![provider] = 0]
  /\ result' = [success |-> TRUE, provider |-> provider, mode |-> "classification",
                categories |-> categories]
  /\ pc' = "done"
  /\ UNCHANGED <<pi, attempt, failLog>>

\* The catch of the provider loop: recordFailure, then the next provider,
\* or past the loop's end the throw that the outer catch turns into
\* failedResult.
Fail(provider, reason) ==
  /\ failLog' = Append(failLog, [provider |-> provider, reason |-> reason])
  /\ failureCount' = [failureCount EXCEPT ![provider] = @ + 1]
  /\ stats' = [stats EXCEPT ![provider].totalRequests = @ + 1]
  /\ IF pi < Len(chain)
     THEN /\ pi' = pi + 1
          /\ pc' = "loop"
          /\ UNCHANGED result
     ELSE /\ result' = FailedResult
          /\ pc' = "done"
          /\ UNCHANGED pi
  /\ UNCHANGED attempt

StartCall ==
  /\ pc = "idle"
  /\ \E batch \in SampleBatches, query \in Queries :
       /\ products' = batch
       /\ searchQuery' = query
  /\ chain' = ProvidersOf(config)
  /\ pi' = 1
  /\ pc' = "loop"
  /\ UNCHANGED <<attempt, result, tried, netLog, probes, answered, failLog, waited,
                 rateLimited>>
  /\ UNCHANGED serviceVars
  /\ UNCHANGED nonLLMVars

\* tryProvider(keyword): useKeywordMatching.
TryKeyword ==
  /\ pc = "loop"
  /\ chain[pi] = "keyword"
  /\ tried' = Append(tried, "keyword")
  /\ Succeed("keyword", useKeywordMatching(products, searchQuery))
  /\ UNCHANGED <<products, searchQuery, netLog, probes, answered, chain, waited, rateLimited>>
  /\ UNCHANGED <<config, healthFresh>>
  /\ UNCHANGED nonLLMVars

\* tryProvider(gemini): useGemini up to its first request.
TryGemini ==
  /\ pc = "loop"
  /\ chain[pi] = "gemini"
  /\ tried' = Append(tried, "gemini")
  /\ IF ~config.gemini.enabled \/ ~config.gemini.apiKey
     THEN Fail("gemini", "disabled")
     ELSE /\ pc' = "gemini"
          /\ attempt' = 1
          /\ UNCHANGED <<pi, result, failureCount, stats, failLog>>
  /\ UNCHANGED <<products, searchQuery, netLog, probes, answered, chain, waited, rateLimited>>
  /\ UNCHANGED <<config, healthFresh>>
  /\ UNCHANGED nonLLMVars

\* tryProvider(ollama): useOllama up to its first request, which is the
\* health probe unless the last successful probe is recent.
TryOllama ==
  /\ pc = "loop"
  /\ chain[pi] = "ollama"
  /\ tried' = Append(tried, "ollama")
  /\ IF ~config.ollama.enabled
     THEN /\ Fail("ollama", "disabled")
          /\ UNCHANGED probes
     ELSE IF healthFresh
     THEN /\ pc' = "ollama"
          /\ attempt' = 1
          /\ UNCHANGED <<probes, pi, result, failureCount, stats, failLog>>
     ELSE /\ pc' = "ollamaHealth"
          /\ probes' = probes + 1
          /\ UNCHANGED <<pi, attempt, result, failureCount, stats, failLog>>
  /\ UNCHANGED <<products, searchQuery, netLog, answered, chain, waited, rateLimited>>
  /\ UNCHANGED <<config, healthFresh>>
  /\ UNCHANGED nonLLMVars

\* A retry loop that allows one attempt past maxRetries.
RetryOnceMore(provider, maxRetries) ==
  IF attempt <= maxRetries
  THEN /\ attempt' = attempt + 1
       /\ UNCHANGED <<pc, pi, result, failureCount, stats, failLog>>
  ELSE Fail(provider, "exhausted")

\* A request failed: the retry loop's catch, for an error that is retried.
Retry(provider, maxRetries) ==
  IF attempt < maxRetries
  THEN /\ attempt' = attempt + 1
       /\ UNCHANGED <<pc, pi, result, failureCount, stats, failLog>>
  ELSE Fail(provider, "exhausted")

\* The structured stages of the parser give up on the answer: no object in
\* the text, no parse even after repair, no categories array, a null entry.
FailsStructuredParsing(resp) ==
  \/ ~resp.braces
  \/ resp.parse = "fail"
  \/ ~resp.hasCategories
  \/ HasNullEntry(resp.cats)

MaxRetriesOf(provider) ==
  IF provider = "gemini" THEN config.gemini.maxRetries ELSE config.ollama.maxRetries

\* An answer handler that treats an answer the structured stages give up on
\* as a failed request.
AnswerStrict(provider, resp) ==
  /\ answered' = Append(answered, [provider |-> provider, resp |-> resp])
  /\ IF FailsStructuredParsing(resp)
     THEN Retry(provider, MaxRetriesOf(provider))
     ELSE Succeed(provider, parseClassificationResult(resp, products))

\* A request's answer carries a text: it is parsed and returned.
Answer(provider, resp) ==
  /\ answered' = Append(answered, [provider |-> provider, resp |-> resp])
  /\ Succeed(provider, parseClassificationResult(resp, products))

GeminiErrors == {"envelope", "429", "timeout"}

\* One generateContent request of useGemini and what follows it.
GeminiAttempt ==
  /\ pc = "gemini"
  /\ netLog' = Append(netLog, "gemini")
  /\ \/ /\ \E resp \in ChainResponsesOf[Len(products)] : Answer("gemini", resp)
        /\ rateLimited' = FALSE
        /\ UNCHANGED waited
     \/ \E err \in GeminiErrors :
          /\ Retry("gemini", config.gemini.maxRetries)
          /\ rateLimited' = (err = "429" /\ (attempt = 1 \/ rateLimited))
          /\ waited' = IF attempt < config.gemini.maxRetries
                       THEN Wait("gemini", attempt,
                                 IF err = "429" THEN config.gemini.retryDelay
                                 ELSE GeminiErrorDelay)
                       ELSE waited
          /\ UNCHANGED answered
  /\ UNCHANGED <<products, searchQuery, tried, probes, chain>>
  /\ UNCHANGED <<config, healthFresh>>
  /\ UNCHANGED nonLLMVars

ProbeOutcomes == {"200", "2xx", "error"}

\* The health probe of checkOllamaHealth returns.
OllamaHealth ==
  /\ pc = "ollamaHealth"
  /\ \E outcome \in ProbeOutcomes :
       IF outcome = "error"
       THEN /\ Fail("ollama", "probe")
            /\ UNCHANGED healthFresh
       ELSE /\ healthFresh' = (healthFresh \/ outcome = "200")
            /\ pc' = "ollama"
            /\ attempt' = 1
            /\ UNCHANGED <<pi, result, failureCount, stats, failLog>>
  /\ UNCHANGED <<products, searchQuery, tried, netLog, probes, answered, chain, waited,
                 rateLimited>>
  /\ UNCHANGED config
  /\ UNCHANGED nonLLMVars

OllamaErrors == {"envelope", "ECONNREFUSED", "timeout"}

\* One /api/generate request of useOllama and what follows it.
OllamaAttempt ==
  /\ pc = "ollama"
  /\ netLog' = Append(netLog, "ollama")
  /\ \/ /\ \E resp \in ChainResponsesOf[Len(products)] : Answer("ollama", resp)
        /\ UNCHANGED waited
     \/ \E err \in OllamaErrors :
          /\ IF err = "ECONNREFUSED"
             THEN /\ Fail("ollama", "refused")
                  /\ UNCHANGED waited
             ELSE /\ Retry("ollama", config.ollama.maxRetries)
                  /\ waited' = IF attempt < config.ollama.maxRetries
                               THEN Wait("ollama", attempt, config.ollama.retryDelay)
                               ELSE waited
          /\ UNCHANGED answered
  /\ UNCHANGED rateLimited
  /\ UNCHANGED <<products, searchQuery, tried, probes, chain>>
  /\ UNCHANGED <<config, healthFresh>>
  /\ UNCHANGED nonLLMVars

\* healthCheck(): the service's health endpoint probes ollama when enabled.
HealthCheck ==
  /\ config.ollama.enabled
  /\ ~healthFresh
  /\ \E outcome \in ProbeOutcomes : healthFresh' = (outcome = "200")
  /\ UNCHANGED <<config, failureCount, stats>>
  /\ UNCHANGED callVars
  /\ UNCHANGED nonLLMVars

\* healthCheckInterval passes since the last successful probe.
IntervalPasses ==
  /\ healthFresh
  /\ healthFresh' = FALSE
  /\ UNCHANGED <<config, failureCount, stats>>
  /\ UNCHANGED callVars
  /\ UNCHANGED nonLLMVars

LLMNext ==
  \/ StartCall
  \/ TryKeyword
  \/ TryGemini
  \/ TryOllama
  \/ GeminiAttempt
  \/ OllamaHealth
  \/ OllamaAttempt
  \/ HealthCheck
  \/ IntervalPasses

(***************************************************************************)
(* SmartLLMService over several categorizeSearchResults calls, one after   *)
(* the other on the same service object: failureCount, stats and the       *)
(* probe's freshness are kept from call to call, the rest is the call's.   *)
(***************************************************************************)
\* Most categorizeSearchResults calls made on the service.
MaxCalls == 4

\* The calls made so far: every call records one success or failure for the
\* first provider of its chain.
CallsMade == stats[ProvidersOf(config)[1]].totalRequests

\* A service in auto mode with both LLM providers enabled.
HealthInit ==
  /\ \E env \in Environments :
       /\ env.LLM_PROVIDER = "auto"
       /\ env.GEMINI_ENABLED /\ env.GEMINI_API_KEY /\ env.OLLAMA_ENABLED
       /\ config = getLLMConfig(env)
  /\ failureCount = [p \in Providers |-> 0]
  /\ stats = [p \in Providers |-> [successCount |-> 0, totalRequests |-> 0]]
  /\ healthFresh = FALSE
  /\ CallIdle

\* categorizeSearchResults is called on the service, for the first time or
\* after an earlier call has returned.
NextCall ==
  /\ pc \in {"idle", "done"}
  /\ ProvidersOf(config) # <<>>
  /\ CallsMade < MaxCalls
  /\ products' = SampleBatch(1)
  /\ searchQuery' = "phone"
  /\ chain' = ProvidersOf(config)
  /\ pi' = 1
  /\ pc' = "loop"
  /\ attempt' = 0
  /\ result' = NoResult
  /\ tried' = <<>>
  /\ netLog' = <<>>
  /\ probes' = 0
  /\ answered' = <<>>
  /\ failLog' = <<>>
  /\ waited' = NoWait
  /\ rateLimited' = FALSE
  /\ UNCHANGED serviceVars
  /\ UNCHANGED nonLLMVars

HealthNext ==
  \/ NextCall
  \/ TryKeyword
  \/ TryGemini
  \/ TryOllama
  \/ GeminiAttempt
  \/ OllamaHealth
  \/ OllamaAttempt
  \/ HealthCheck
  \/ IntervalPasses

(***************************************************************************)
(* SmartLLMService under concurrent categorizeSearchResults calls on one   *)
(* service object (searchService's one CrawlerManager hands every search   *)
(* to its one instance).  A call runs from await to await; between two     *)
(* awaits of one call any other call may run.  recordSuccess and           *)
(* recordFailure hold no await: each runs within one step.                 *)
(***************************************************************************)
\* Most categorizeSearchResults calls in flight at once.
MaxConcurrent == 2

ConcurrentCalls == 1..MaxConcurrent

Position(where, index, n) == [pc |-> where, pi |-> index, attempt |-> n]

NoRecords == [p \in Providers |-> [successes |-> 0, failures |-> 0]]

ConcurrentQuiet ==
  /\ calls = [c \in ConcurrentCalls |-> Position("idle", 0, 0)]
  /\ recorded = NoRecords

\* A service in auto mode with both LLM providers enabled, and no call yet.
ConcurrentInit == HealthInit /\ ConcurrentQuiet

\* recordSuccess that leaves the failure streak as it is.
recordSuccessKeepsStreak(provider) ==
  /\ stats' = [stats EXCEPT ![provider].successCount = @ + 1,
                            ![provider].totalRequests = @ + 1]
  /\ UNCHANGED failureCount

recordSuccess(provider) ==
  /\ stats' = [stats EXCEPT ![provider].successCount = @ + 1,
                            ![provider].totalRequests = @ + 1]
  /\ failureCount' = [failureCount EXCEPT ![provider] = 0]

recordFailure(provider) ==
  /\ failureCount' = [failureCount EXCEPT ![provider] = @ + 1]
  /\ stats' = [stats EXCEPT ![provider].totalRequests = @ + 1]

\* tryProvider returned to call c: recordSuccess, and the call returns.
Succeeds(c, provider) ==
  /\ recordSuccess(provider)
  /\ recorded' = [recorded EXCEPT ![provider].successes = @ + 1]
  /\ calls' = [calls EXCEPT ![c].pc = "done"]

\* tryProvider threw in call c: recordFailure, then the next provider or
\* the return of failedResult.
Fails(c, provider) ==
  /\ recordFailure(provider)
  /\ recorded' = [recorded EXCEPT ![provider].failures = @ + 1]
  /\ calls' = IF calls[c].pi < Len(ProvidersOf(config))
              THEN [calls EXCEPT ![c] = Position("loop", calls[c].pi + 1, calls[c].attempt)]
              ELSE [calls EXCEPT ![c].pc = "done"]

\* Call c goes on without a record.
Moves(c, where, n) ==
  /\ calls' = [calls EXCEPT ![c] = Position(where, calls[c].pi, n)]
  /\ UNCHANGED <<failureCount, stats, recorded>>

\* A failed request of call c: the retry loop's catch.
Retries(c, provider) ==
  IF calls[c].attempt < MaxRetriesOf(provider)
  THEN Moves(c, calls[c].pc, calls[c].attempt + 1)
  ELSE Fails(c, provider)

ConcurrentStart(c) ==
  /\ calls[c].pc = "idle"
  /\ calls' = [calls EXCEPT ![c] = Position("loop", 1, 0)]
  /\ UNCHANGED recorded
  /\ UNCHANGED serviceVars
  /\ UNCHANGED callVars
  /\ UNCHANGED <<parseVars, cacheVars, searchVars, webVars, repairVars, probeVars, taskVars>>

\* The provider loop of call c hands its next provider to tryProvider, up to
\* the provider's first await.
ConcurrentTry(c) ==
  /\ calls[c].pc = "loop"
  /\ LET provider == ProvidersOf(config)[calls[c].pi]
     IN  IF provider = "keyword" THEN Succeeds(c, "keyword")
         ELSE IF provider = "gemini"
         THEN IF ~config.gemini.enabled \/ ~config.gemini.apiKey
              THEN Fails(c, "gemini")
              ELSE Moves(c, "gemini", 1)
         ELSE IF ~config.ollama.enabled THEN Fails(c, "ollama")
         ELSE IF healthFresh THEN Moves(c, "ollama", 1)
         ELSE Moves(c, "ollamaHealth", calls[c].attempt)
  /\ UNCHANGED <<config, healthFresh>>
  /\ UNCHANGED callVars
  /\ UNCHANGED <<parseVars, cacheVars, searchVars, webVars, repairVars, probeVars, taskVars>>

\* A generateContent request of call c is answered or fails.
ConcurrentGemini(c) ==
  /\ calls[c].pc = "gemini"
  /\ \/ Succeeds(c, "gemini")
     \/ Retries(c, "gemini")
  /\ UNCHANGED <<config, healthFresh>>
  /\ UNCHANGED callVars
  /\ UNCHANGED <<parseVars, cacheVars, searchVars, webVars, repairVars, probeVars, taskVars>>

\* The health probe of call c returns.
ConcurrentProbe(c) ==
  /\ calls[c].pc = "ollamaHealth"
  /\ \E outcome \in ProbeOutcomes :
       IF outcome = "error"
       THEN /\ Fails(c, "ollama")
            /\ UNCHANGED healthFresh
       ELSE /\ healthFresh' = (healthFresh \/ outcome = "200")
            /\ Moves(c, "ollama", 1)
  /\ UNCHANGED config
  /\ UNCHANGED callVars
  /\ UNCHANGED <<parseVars, cacheVars, searchVars, webVars, repairVars, probeVars, taskVars>>

\* An /api/generate request of call c is answered, refused, or fails.
ConcurrentOllama(c) ==
  /\ calls[c].pc = "ollama"
  /\ \/ Succeeds(c, "ollama")
     \/ Fails(c, "ollama")
     \/ Retries(c, "ollama")
  /\ UNCHANGED <<config, healthFresh>>
  /\ UNCHANGED callVars
  /\ UNCHANGED <<parseVars, cacheVars, searchVars, webVars, repairVars, probeVars, taskVars>>

ConcurrentNext ==
  \/ \E c \in ConcurrentCalls : ConcurrentStart(c)
  \/ \E c \in ConcurrentCalls : ConcurrentTry(c)
  \/ \E c \in ConcurrentCalls : ConcurrentGemini(c)
  \/ \E c \in ConcurrentCalls : ConcurrentProbe(c)
  \/ \E c \in ConcurrentCalls : ConcurrentOllama(c)
  \/ IntervalPasses

(***************************************************************************)
(* useOllama and checkOllamaHealth under concurrent calls, with the clock. *)
(* checkOllamaHealth reads lastHealthCheck and Date.now() on entry and     *)
(* writes lastHealthCheck when its probe is answered 200; in between it    *)
(* awaits the probe.  Times are clock readings since the service started;  *)
(* Date.now() at the start is far more than healthCheckInterval, so a      *)
(* lastHealthCheck that was never set (read as 0) lies more than an        *)
(* interval before every reading.                                          *)
(***************************************************************************)
\* Most useOllama calls made on the service.
MaxOllamaCalls == 3

OllamaCalls == 1..MaxOllamaCalls

\* config.ollama.healthCheckInterval, in clock readings.
HealthCheckInterval == 2

NeverChecked == 0 - HealthCheckInterval

\* A useOllama call: where it stands, the now of its checkOllamaHealth, and
\* the generate requests it has sent.
OllamaCall(where, now, requests) == [pc |-> where, now |-> now, requests |-> requests]

ProbeQuiet ==
  /\ ollamaCalls = [c \in OllamaCalls |-> OllamaCall("idle", 0, 0)]
  /\ lastHealthCheck = NeverChecked
  /\ probedAt = NeverChecked

\* A service with Ollama enabled and two attempts per call.
ProbeInit ==
  /\ config = getLLMConfig(CHOOSE env \in Environments :
                             env.OLLAMA_ENABLED /\ env.OLLAMA_MAX_RETRIES = 2)
  /\ failureCount = [p \in Providers |-> 0]
  /\ stats = [p \in Providers |-> [successCount |-> 0, totalRequests |-> 0]]
  /\ healthFresh = FALSE
  /\ CallIdle
  /\ ProbeQuiet

\* The test of checkOllamaHealth: the last recorded probe is recent.
RecentlyChecked(now, lastCheck) == now - lastCheck < HealthCheckInterval

\* useOllama is entered: the enabled check, and checkOllamaHealth up to its
\* return or to the await of its probe; after the return the first generate
\* request is sent.
UseOllama(c) ==
  /\ ollamaCalls[c].pc = "idle"
  /\ ollamaCalls' =
       [ollamaCalls EXCEPT ![c] =
          IF ~config.ollama.enabled THEN OllamaCall("failed", 0, 0)
          ELSE IF RecentlyChecked(clock, lastHealthCheck) THEN OllamaCall("generate", 0, 1)
          ELSE OllamaCall("probe", clock, 0)]
  /\ UNCHANGED <<lastHealthCheck, probedAt>>
  /\ UNCHANGED clock
  /\ UNCHANGED llmVars
  /\ UNCHANGED <<parseVars, searchVars, webVars, repairVars, concurrentVars, taskVars>>
  /\ UNCHANGED <<cache, cacheConfig, cacheStats, lastCall>>

\* The probe of call c returns: status 200, another 2xx status, or an error
\* (a status outside 2xx, no connection, the 5 second timeout).
ProbeReturns(c) ==
  /\ ollamaCalls[c].pc = "probe"
  /\ \E outcome \in ProbeOutcomes :
       IF outcome = "error"
       THEN /\ ollamaCalls' = [ollamaCalls EXCEPT ![c] = OllamaCall("failed", 0, 0)]
            /\ UNCHANGED <<lastHealthCheck, probedAt>>
       ELSE /\ ollamaCalls' = [ollamaCalls EXCEPT ![c] = OllamaCall("generate", 0, 1)]
            /\ lastHealthCheck' = IF outcome = "200" THEN ollamaCalls[c].now
                                  ELSE lastHealthCheck
            /\ probedAt' = IF outcome = "200" /\ ollamaCalls[c].now > probedAt
                           THEN ollamaCalls[c].now
                           ELSE probedAt
  /\ UNCHANGED clock
  /\ UNCHANGED llmVars
  /\ UNCHANGED <<parseVars, searchVars, webVars, repairVars, concurrentVars, taskVars>>
  /\ UNCHANGED <<cache, cacheConfig, cacheStats, lastCall>>

\* The generate request of call c is answered, or fails: the retry loop
\* sends the next request while attempts are left.
GenerateReturns(c) ==
  /\ ollamaCalls[c].pc = "generate"
  /\ \/ ollamaCalls' = [ollamaCalls EXCEPT ![c].pc = "returned"]
     \/ ollamaCalls' = [ollamaCalls EXCEPT ![c].pc = "failed"]
     \/ /\ ollamaCalls[c].requests < config.ollama.maxRetries
        /\ ollamaCalls' = [ollamaCalls EXCEPT ![c].requests = @ + 1]
  /\ UNCHANGED <<lastHealthCheck, probedAt>>
  /\ UNCHANGED clock
  /\ UNCHANGED llmVars
  /\ UNCHANGED <<parseVars, searchVars, webVars, repairVars, concurrentVars, taskVars>>
  /\ UNCHANGED <<cache, cacheConfig, cacheStats, lastCall>>

\* The clock moves on.
TimePasses ==
  /\ clock < MaxTime
  /\ clock' = clock + 1
  /\ UNCHANGED probeVars
  /\ UNCHANGED llmVars
  /\ UNCHANGED <<parseVars, searchVars, webVars, repairVars, concurrentVars, taskVars>>
  /\ UNCHANGED <<cache, cacheConfig, cacheStats, lastCall>>

ProbeNext ==
  \/ \E c \in OllamaCalls : UseOllama(c)
  \/ \E c \in OllamaCalls : ProbeReturns(c)
  \/ \E c \in OllamaCalls : GenerateReturns(c)
  \/ TimePasses

(***************************************************************************)
(* ClassificationCache.  The Map is the sequence of its entries in         *)
(* insertion order.  A call reads Date.now() where the code reads it, and  *)
(* the clock may move on between two reads.                                *)
(***************************************************************************)
Null == "null"

Labels == {"phones", "phone accessories"}

\* A string is the sequence of its pieces: the character "_" is a piece of
\* its own, and a piece of other characters is a longest run of them.
\* Joining strings with "_" is joining their sequences with <<"_">>.
Underscore == <<"_">>

\* queryContext left out, or null.
NoContext == [originalQuery |-> <<>>, mainCategory |-> <<>>]

Context(originalQuery, mainCategory) ==
  [originalQuery |-> originalQuery, mainCategory |-> mainCategory]

\* The (productName, queryContext) pairs the calls are made with.
CachedProducts ==
  {<<(<<"apple phone">>), NoContext>>,
   <<(<<"apple phone">>), Context(<<"phone">>, <<"phones">>)>>,
   <<(<<"phone case">>), NoContext>>,
   <<(<<"apple phone">>), Context(<<"phone", "_", "case">>, <<"phones">>)>>,
   <<(<<"apple phone">>), Context(<<"phone">>, <<"case", "_", "phones">>)>>}

\* The raw key `${productName}_${contextStr}`.  The key is the MD5 digest of
\* the raw key, written as the raw key: two keys are equal exactly when the
\* raw keys are the same string.
generateCacheKey(productName, queryContext) ==
  LET contextStr == IF queryContext = NoContext THEN <<"default">>
                    ELSE queryContext.originalQuery \o Underscore
                           \o queryContext.mainCategory
  IN  productName \o Underscore \o contextStr

\* Position of key in the Map, 0 when absent.
IndexOfKey(c, key) ==
  LET at == {i \in 1..Len(c) : c[i].key = key}
  IN  IF at = {} THEN 0 ELSE CHOOSE i \in at : TRUE

\* Map.prototype.set: a present key keeps its place.
MapSet(c, item) ==
  LET at == IndexOfKey(c, item.key)
  IN  IF at = 0 THEN Append(c, item) ELSE [c EXCEPT ![at] = item]

\* Map.prototype.delete
MapDelete(c, key) == SelectSeq(c, LAMBDA item : item.key # key)

\* The test of get and of cleanup, with one millisecond of grace.
ExpiredLate(item, now) == now > item.expireAt + 1

\* The test of get and of cleanup: the entry is expired at now.
Expired(item, now) == now > item.expireAt

\* The loop of evictOldest from entry i on: the position of the oldest
\* entry seen, 0 while none is older than oldestTime.
RECURSIVE OldestScan(_, _, _, _)
OldestScan(c, i, oldestPos, oldestTime) ==
  IF i > Len(c) THEN oldestPos
  ELSE IF c[i].createdAt < oldestTime
       THEN OldestScan(c, i + 1, i, c[i].createdAt)
       ELSE OldestScan(c, i + 1, oldestPos, oldestTime)

evictOldest(c, now) ==
  LET oldestPos == OldestScan(c, 1, 0, now)
  IN  IF oldestPos # 0 THEN MapDelete(c, c[oldestPos].key) ELSE c

CacheInit ==
  /\ clock = 0
  /\ cache = <<>>
  /\ cacheConfig \in [ttl : 2..MaxTtl, maxSize : 1..MaxCacheSize]
  /\ cacheStats = [hits |-> 0, misses |-> 0, sets |-> 0]
  /\ lastCall = [op |-> "none"]

CacheQuiet ==
  /\ clock = 0
  /\ cache = <<>>
  /\ cacheConfig = [ttl |-> 2, maxSize |-> 1]
  /\ cacheStats = [hits |-> 0, misses |-> 0, sets |-> 0]
  /\ lastCall = [op |-> "none"]

\* set(productName, category, queryContext): the clock is read for expireAt,
\* for createdAt, and by evictOldest when the Map is over maxSize.
CacheSet ==
  /\ cacheStats.hits + cacheStats.misses + cacheStats.sets < MaxCacheCalls
  /\ \E cp \in CachedProducts, category \in Labels :
     \E d1 \in 0..1, d2 \in 0..1 :
       LET key == generateCacheKey(cp[1], cp[2])
           expireAt == clock + cacheConfig.ttl
           createdAt == clock + d1
           stored == MapSet(cache, [key |-> key, category |-> category,
                                    createdAt |-> createdAt, expireAt |-> expireAt])
           over == Len(stored) > cacheConfig.maxSize
           now == IF over THEN createdAt + d2 ELSE createdAt
       IN  /\ now <= MaxTime
           /\ cache' = IF over THEN evictOldest(stored, now) ELSE stored
           /\ clock' = now
           /\ lastCall' = [op |-> "set", key |-> key, category |-> category,
                           productName |-> cp[1], queryContext |-> cp[2]]
  /\ cacheStats' = [cacheStats EXCEPT !.sets = @ + 1]
  /\ UNCHANGED cacheConfig
  /\ UNCHANGED parseVars
  /\ UNCHANGED webVars
  /\ UNCHANGED repairVars
  /\ UNCHANGED concurrentVars
  /\ UNCHANGED probeVars
  /\ UNCHANGED taskVars
  /\ UNCHANGED llmVars
  /\ UNCHANGED searchVars

\* What get(productName, queryContext) returns at now.
Lookup(c, key, now) ==
  LET i == IndexOfKey(c, key)
  IN  IF i = 0 THEN Null
      ELSE IF Expired(c[i], now) THEN Null
      ELSE c[i].category

\* get(productName, queryContext)
CacheGet ==
  /\ cacheStats.hits + cacheStats.misses + cacheStats.sets < MaxCacheCalls
  /\ \E cp \in CachedProducts :
       LET key == generateCacheKey(cp[1], cp[2])
           i == IndexOfKey(cache, key)
           returned == Lookup(cache, key, clock)
       IN  /\ cache' = IF i # 0 /\ Expired(cache[i], clock) THEN MapDelete(cache, key)
                       ELSE cache
           /\ cacheStats' = IF returned = Null /\ (i = 0 \/ Expired(cache[i], clock))
                            THEN [cacheStats EXCEPT !.misses = @ + 1]
                            ELSE [cacheStats EXCEPT !.hits = @ + 1]
           /\ lastCall' = [op |-> "get", key |-> key, at |-> clock, returned |-> returned,
                           saw |-> IF i = 0 THEN <<>> ELSE <<cache[i]>>]
  /\ UNCHANGED <<clock, cacheConfig>>
  /\ UNCHANGED parseVars
  /\ UNCHANGED webVars
  /\ UNCHANGED repairVars
  /\ UNCHANGED concurrentVars
  /\ UNCHANGED probeVars
  /\ UNCHANGED taskVars
  /\ UNCHANGED llmVars
  /\ UNCHANGED searchVars

\* The batches batchGet is called with: product i of a batch has id i; two
\* products of a batch may carry the same name.
BatchNames == {<<"apple phone">>, <<"phone case">>}

Batches ==
  UNION {{[i \in 1..n |-> [id |-> i, name |-> f[i]]] : f \in [1..n -> BatchNames]} :
           n \in 0..MaxProducts}

BatchContexts == {NoContext, Context(<<"phone">>, <<"phones">>)}

\* The readings of Date.now() by the n get calls of one batchGet, the first
\* at from: the clock may move on by a millisecond between two of them.
ClockReadings(n, from) ==
  {t \in [1..n -> from..MaxTime] :
     /\ n > 0 => t[1] = from
     /\ \A i \in 1..(n - 1) : t[i + 1] - t[i] \in 0..1}

\* The loop of batchGet from product i on.  A label is a non-empty string,
\* so `if (cached)` tells a label from null.
RECURSIVE BatchGetScan(_, _, _, _, _)
BatchGetScan(acc, prods, queryContext, times, i) ==
  IF i > Len(prods) THEN acc
  ELSE LET key == generateCacheKey(prods[i].name, queryContext)
           at == IndexOfKey(acc.cache, key)
           cached == Lookup(acc.cache, key, times[i])
           swept == IF at # 0 /\ Expired(acc.cache[at], times[i])
                    THEN MapDelete(acc.cache, key)
                    ELSE acc.cache
       IN  BatchGetScan(
             IF cached # Null
             THEN [acc EXCEPT !.hits = @ + 1,
                              !.cached = Append(@, [product |-> prods[i], category |-> cached,
                                                    fromCache |-> TRUE])]
             ELSE [acc EXCEPT !.cache = swept,
                              !.misses = @ + 1,
                              !.uncached = Append(@, prods[i])],
             prods, queryContext, times, i + 1)

\* batchGet with every get reading the time of the first.
batchGetOneReading(c, prods, queryContext, times) ==
  BatchGetScan([cache |-> c, hits |-> 0, misses |-> 0, cached |-> <<>>, uncached |-> <<>>],
               prods, queryContext, [i \in DOMAIN times |-> times[1]], 1)

batchGet(c, prods, queryContext, times) ==
  BatchGetScan([cache |-> c, hits |-> 0, misses |-> 0, cached |-> <<>>, uncached |-> <<>>],
               prods, queryContext, times, 1)

\* batchGet(products, queryContext)
CacheBatchGet ==
  /\ \E prods \in Batches, queryContext \in BatchContexts :
     \E times \in ClockReadings(Len(prods), clock) :
       LET r == batchGet(cache, prods, queryContext, times)
       IN  /\ cacheStats.hits + cacheStats.misses + cacheStats.sets + Len(prods)
                <= MaxCacheCalls
           /\ cache' = r.cache
           /\ cacheStats' = [cacheStats EXCEPT !.hits = @ + r.hits, !.misses = @ + r.misses]
           /\ clock' = IF prods = <<>> THEN clock ELSE times[Len(prods)]
           /\ lastCall' = [op |-> "batchGet", products |-> prods,
                           queryContext |-> queryContext, times |-> times,
                           before |-> cache, cached |-> r.cached, uncached |-> r.uncached]
  /\ UNCHANGED cacheConfig
  /\ UNCHANGED parseVars
  /\ UNCHANGED webVars
  /\ UNCHANGED repairVars
  /\ UNCHANGED concurrentVars
  /\ UNCHANGED probeVars
  /\ UNCHANGED taskVars
  /\ UNCHANGED llmVars
  /\ UNCHANGED searchVars

\* cleanup(): the hourly sweep.
CacheCleanup ==
  /\ \E i \in 1..Len(cache) : Expired(cache[i], clock)
  /\ cache' = SelectSeq(cache, LAMBDA item : ~Expired(item, clock))
  /\ lastCall' = [op |-> "cleanup"]
  /\ UNCHANGED <<clock, cacheConfig, cacheStats>>
  /\ UNCHANGED parseVars
  /\ UNCHANGED webVars
  /\ UNCHANGED repairVars
  /\ UNCHANGED concurrentVars
  /\ UNCHANGED probeVars
  /\ UNCHANGED taskVars
  /\ UNCHANGED llmVars
  /\ UNCHANGED searchVars

\* A millisecond passes.
ClockTick ==
  /\ clock < MaxTime
  /\ clock' = clock + 1
  /\ lastCall' = [op |-> "tick"]
  /\ UNCHANGED <<cache, cacheConfig, cacheStats>>
  /\ UNCHANGED parseVars
  /\ UNCHANGED webVars
  /\ UNCHANGED repairVars
  /\ UNCHANGED concurrentVars
  /\ UNCHANGED probeVars
  /\ UNCHANGED taskVars
  /\ UNCHANGED llmVars
  /\ UNCHANGED searchVars

CacheNext ==
  \/ CacheSet
  \/ CacheGet
  \/ CacheBatchGet
  \/ CacheCleanup
  \/ ClockTick

(***************************************************************************)
(* CrawlerManager.searchProducts and searchService.searchProducts (with    *)
(* useCrawler, its default).  A platform's crawler is an input: its        *)
(* promise settles with a result or rejects.                               *)
(***************************************************************************)
Crawlers == {"pchome", "momo"}

DefaultPlatforms == <<"pchome", "momo">>

\* filters.platforms of a request, when given.
PlatformLists == {<<>>, <<"momo">>, <<"momo", "pchome">>, <<"pchome", "yahoo">>}

\* The filters of a request: given tells that filters.platforms is present,
\* minPrice is 0 when filters.minPrice is absent.
NoFilters == [given |-> FALSE, platforms |-> <<>>, minPrice |-> 0]

Filters ==
  {NoFilters} \cup {[given |-> TRUE, platforms |-> l, minPrice |-> 0] : l \in PlatformLists}

Sorts == {"relevance", "price_desc"}

SearchQueries == {"phone"}

\* Product i of a platform's result page.  PChome's crawler fills the
\* platform field, momo's leaves it empty.
\* generateProductId(name, platform, url): the first 16 hex digits of the
\* md5 of the three, written as a code that tells the triples apart; url is
\* the number of the listing on its site.
generateProductId(name, platform, url) ==
  LET nameCode == CASE name = "apple phone" -> 1 [] name = "phone case" -> 2 [] OTHER -> 3
      platformCode == CASE platform = "pchome" -> 1 [] platform = "momo" -> 2 [] OTHER -> 3
  IN  (url * 4 + nameCode) * 4 + platformCode

\* Listing i of a platform as its crawler returns it: PChomeCrawler through
\* formatSearchResult, with an id; MomoCrawler as scraped, without one.
FetchedProduct(platform, i) ==
  IF platform = "pchome"
  THEN [id |-> generateProductId("apple phone", "pchome", i), name |-> "apple phone",
        price |-> 300 + i, platform |-> "pchome"]
  ELSE [id |-> NoId, name |-> "phone case", price |-> 125 + i, platform |-> "momo"]

Pending == [status |-> "pending", success |-> FALSE, products |-> <<>>, error |-> ""]

Fulfilled(platform, k) ==
  [status |-> "fulfilled", success |-> TRUE,
   products |-> [i \in 1..k |-> FetchedProduct(platform, i)], error |-> ""]

Unsuccessful(error) ==
  [status |-> "fulfilled", success |-> FALSE, products |-> <<>>, error |-> error]

Rejected(message) ==
  [status |-> "rejected", success |-> FALSE, products |-> <<>>, error |-> message]

\* A crawler whose searchProducts promise never settles.
Hung == [status |-> "hung", success |-> FALSE, products |-> <<>>, error |-> ""]

FetchOutcomes(platform) ==
  {Fulfilled(platform, k) : k \in (IF platform = "momo" THEN 1 ELSE 0)..MaxFetched}
    \cup {Unsuccessful("blocked"), Unsuccessful(""), Rejected("timeout"), Hung}

\* searchSinglePlatform up to its await.
searchSinglePlatform(platformName) ==
  IF platformName \notin Crawlers THEN Rejected("no crawler") ELSE Pending

\* Step 2 of CrawlerManager.searchProducts.
Settlements(platforms, outcomes) ==
  [i \in 1..Len(platforms) |-> [platform |-> platforms[i], outcome |-> outcomes[i]]]

SuccessfulResults(platforms, outcomes) ==
  LET ok == SelectSeq(Settlements(platforms, outcomes),
                      LAMBDA r : r.outcome.status = "fulfilled" /\ r.outcome.success)
  IN  [i \in 1..Len(ok) |-> [platform |-> ok[i].platform, products |-> ok[i].outcome.products]]

\* A collection that lists only the platforms whose promise rejected.
FailedPlatformsRejectedOnly(platforms, outcomes) ==
  LET ko == SelectSeq(Settlements(platforms, outcomes),
                      LAMBDA r : r.outcome.status = "rejected")
  IN  [i \in 1..Len(ko) |-> [platform |-> ko[i].platform, error |-> ko[i].outcome.error]]

FailedPlatforms(platforms, outcomes) ==
  LET ko == SelectSeq(Settlements(platforms, outcomes),
                      LAMBDA r : ~(r.outcome.status = "fulfilled" /\ r.outcome.success))
  IN  [i \in 1..Len(ko) |->
         [platform |-> ko[i].platform,
          error |-> IF ko[i].outcome.error # "" THEN ko[i].outcome.error ELSE "unknown error"]]

\* A merge that takes the successful results in the order in which their
\* fetches completed.
MergeProductsAsSettled(successfulResults) ==
  LET done == SelectSeq(settleOrder,
                        LAMBDA i : settled[i].status = "fulfilled" /\ settled[i].success)
      platforms == IF request.filters.given THEN request.filters.platforms
                   ELSE DefaultPlatforms
      counts == [n \in 1..Len(done) |-> Len(settled[done[n]].products)]
      upTo(n) == SumSeq(SubSeq(counts, 1, n))
  IN  [x \in 1..SumSeq(counts) |->
         LET n == CHOOSE m \in 1..Len(done) : upTo(m - 1) < x /\ x <= upTo(m)
             p == settled[done[n]].products[x - upTo(n - 1)]
         IN  [p EXCEPT !.platform = IF @ # "" THEN @ ELSE platforms[done[n]]]]

\* Step 3: the products of the successful results, in order, each with
\* its platform filled in.
RECURSIVE MergeProducts(_)
MergeProducts(successfulResults) ==
  IF successfulResults = <<>> THEN <<>>
  ELSE LET r == Head(successfulResults)
       IN  [i \in 1..Len(r.products) |->
              [r.products[i] EXCEPT !.platform = IF @ # "" THEN @ ELSE r.platform]]
           \o MergeProducts(Tail(successfulResults))

\* getSortFunction(sortBy) applied by Array.prototype.sort, which is stable.
SortByPrice(prods, sortBy) ==
  LET n == Len(prods)
      before(x, y) == IF sortBy = "price_desc" THEN x.price > y.price ELSE x.price < y.price
      place == [i \in 1..n |->
                  Cardinality({j \in 1..n : \/ before(prods[j], prods[i])
                                            \/ j < i /\ prods[j].price = prods[i].price}) + 1]
                 \o <<>>
  IN  [k \in 1..n |-> prods[CHOOSE i \in 1..n : place[i] = k]] \o <<>>

\* summary of a crawl result: its two platform counts.
Summary(successfulPlatforms, failedPlatforms) ==
  [successfulPlatforms |-> successfulPlatforms, failedPlatforms |-> failedPlatforms]

\* The value the catch returns has no summary.
NoSummary == Summary(0, 0)

FailedCrawl ==
  [success |-> FALSE, mode |-> "none", categories |-> <<>>, hasProducts |-> TRUE,
   products |-> <<>>, totalProducts |-> 0, platformResults |-> <<>>, failedPlatforms |-> <<>>,
   summary |-> NoSummary]

NoCrawl ==
  [success |-> FALSE, mode |-> "idle", categories |-> <<>>, hasProducts |-> FALSE,
   products |-> <<>>, totalProducts |-> 0, platformResults |-> <<>>, failedPlatforms |-> <<>>,
   summary |-> NoSummary]

NoRequest ==
  [query |-> "phone", filters |-> NoFilters, sort |-> "relevance", categorySummary |-> TRUE]

NoCall ==
  [op |-> "none", count |-> 0, categoryName |-> CatName("", 0),
   repeat |-> FALSE, sawAge |-> -1, wrote |-> FALSE, since |-> 0]

NoOutput ==
  [status |-> "none", products |-> <<>>, total |-> 0, page |-> 0, limit |-> 0,
   hasMore |-> FALSE, categories |-> <<>>, fromCache |-> FALSE]

Thrown ==
  [status |-> "thrown", products |-> <<>>, total |-> 0, page |-> 0, limit |-> 0,
   hasMore |-> FALSE, categories |-> <<>>, fromCache |-> FALSE]

\* CACHE_TTL, in quarters of an hour.
CACHE_TTL == 2

\* Most entries searchCache keeps.
SearchCacheLimit == 100

\* Most products the "all products" category shows.
AllProductsShown == 40

Pages == 1..2

Limits == 1..2

cacheKeyOf(req) == [query |-> req.query, filters |-> req.filters, sort |-> req.sort]

\* The value searchProducts returns for products and categories.
Paginated(prods, categories, page, limit, fromCache) ==
  [status |-> "returned",
   products |-> Slice(prods, (page - 1) * limit, (page - 1) * limit + limit),
   total |-> Len(prods), page |-> page, limit |-> limit,
   hasMore |-> (page - 1) * limit + limit < Len(prods),
   categories |-> categories, fromCache |-> fromCache]

SearchIdle ==
  /\ spc = "idle"
  /\ request = NoRequest
  /\ searchOut = NoOutput
  /\ searchCache = <<>>
  /\ cpc = "idle"
  /\ settled = <<>>
  /\ crawlResult = NoCrawl
  /\ served = NoCall
  /\ made = <<>>
  /\ settleOrder = <<>>

\* The service as CrawlerManager's constructor builds it; the request
\* timeouts and the order of the chain play no part in a crawl.
SearchEnvironments ==
  {env \in Environments :
     /\ env.LLM_PROVIDER = "auto"
     /\ env.LLM_FALLBACK_ORDER = <<"gemini", "ollama", "keyword">>
     /\ env.GEMINI_API_KEY
     /\ env.GEMINI_MAX_RETRIES = env.OLLAMA_MAX_RETRIES}

SearchInit ==
  /\ \E env \in SearchEnvironments : config = getLLMConfig(env)
  /\ failureCount = [p \in Providers |-> 0]
  /\ stats = [p \in Providers |-> [successCount |-> 0, totalRequests |-> 0]]
  /\ healthFresh = FALSE
  /\ CallIdle
  /\ SearchIdle

\* searchProducts up to its await: the cached answer, or the crawl up to
\* Promise.allSettled.
SearchStart ==
  /\ spc = "idle"
  /\ \E query \in SearchQueries, filters \in Filters, sort \in Sorts,
        categorySummary \in BOOLEAN, page \in Pages, limit \in Limits :
       LET req == [query |-> query, filters |-> filters, sort |-> sort,
                   categorySummary |-> categorySummary]
           at == IndexOfKey(searchCache, cacheKeyOf(req))
           platforms == IF filters.given THEN filters.platforms ELSE DefaultPlatforms
       IN  /\ request' = req
           /\ IF at # 0 /\ searchCache[at].age < CACHE_TTL
              THEN /\ searchOut' = Paginated(searchCache[at].products,
                                             searchCache[at].categories, page, limit, TRUE)
                   /\ spc' = "done"
                   /\ UNCHANGED <<cpc, settled, settleOrder>>
              ELSE /\ spc' = "crawl"
                   /\ cpc' = "fetch"
                   /\ settled' = [i \in 1..Len(platforms) |-> searchSinglePlatform(platforms[i])]
                   /\ settleOrder' = SelectSeq([i \in 1..Len(platforms) |-> i],
                                               LAMBDA i : platforms[i] \notin Crawlers)
                   /\ searchOut' = NoOutput
  /\ UNCHANGED <<searchCache, crawlResult, served, made>>
  /\ UNCHANGED parseVars
  /\ UNCHANGED webVars
  /\ UNCHANGED repairVars
  /\ UNCHANGED concurrentVars
  /\ UNCHANGED probeVars
  /\ UNCHANGED taskVars
  /\ UNCHANGED llmVars
  /\ UNCHANGED cacheVars

\* One platform's crawler settles its promise, or hangs for good.
FetchSettles ==
  /\ cpc = "fetch"
  /\ \E i \in 1..Len(settled) :
       /\ settled[i] = Pending
       /\ \E outcome \in FetchOutcomes(
               (IF request.filters.given THEN request.filters.platforms
                ELSE DefaultPlatforms)[i]) :
            /\ settled' = [settled EXCEPT ![i] = outcome]
            /\ settleOrder' = IF outcome = Hung THEN settleOrder ELSE Append(settleOrder, i)
  /\ UNCHANGED <<spc, request, searchOut, searchCache, cpc, crawlResult, served, made>>
  /\ UNCHANGED parseVars
  /\ UNCHANGED webVars
  /\ UNCHANGED repairVars
  /\ UNCHANGED concurrentVars
  /\ UNCHANGED probeVars
  /\ UNCHANGED taskVars
  /\ UNCHANGED llmVars
  /\ UNCHANGED cacheVars

\* Promise.allSettled resolves: steps 2 to 4, then the return of step 6 or
\* the call of tryLLMCategorization up to its await.
CrawlMerge ==
  /\ cpc = "fetch"
  /\ \A i \in 1..Len(settled) : settled[i].status \in {"fulfilled", "rejected"}
  /\ LET platforms == IF request.filters.given THEN request.filters.platforms
                      ELSE DefaultPlatforms
         successfulResults == SuccessfulResults(platforms, settled)
         failedPlatforms == FailedPlatforms(platforms, settled)
         allProducts == MergeProducts(successfulResults)
     IN  IF allProducts = <<>>
         THEN /\ crawlResult' =
                   [success |-> TRUE, mode |-> "category_summary", categories |-> <<>>,
                    hasProducts |-> FALSE, products |-> <<>>, totalProducts |-> 0,
                    platformResults |-> <<>>, failedPlatforms |-> failedPlatforms,
                    summary |-> Summary(0, Len(failedPlatforms))]
              /\ cpc' = "done"
              /\ UNCHANGED <<products, searchQuery, chain, pi, pc>>
         ELSE IF request.categorySummary
         THEN /\ products' = allProducts
              /\ searchQuery' = request.query
              /\ chain' = <<"gemini", "ollama">>
              /\ pi' = 1
              /\ pc' = "loop"
              /\ cpc' = "categorize"
              /\ UNCHANGED crawlResult
         ELSE /\ crawlResult' =
                   [success |-> TRUE, mode |-> "product_list", categories |-> <<>>,
                    hasProducts |-> TRUE, products |-> SortByPrice(allProducts, request.sort),
                    totalProducts |-> Len(allProducts),
                    platformResults |-> successfulResults,
                    failedPlatforms |-> failedPlatforms,
                    summary |-> Summary(Len(successfulResults), Len(failedPlatforms))]
              /\ cpc' = "done"
              /\ UNCHANGED <<products, searchQuery, chain, pi, pc>>
  /\ UNCHANGED <<spc, request, searchOut, searchCache, settled, served, made, settleOrder>>
  /\ UNCHANGED <<attempt, result, tried, netLog, probes, answered, failLog, waited,
                 rateLimited>>
  /\ UNCHANGED serviceVars
  /\ UNCHANGED parseVars
  /\ UNCHANGED webVars
  /\ UNCHANGED repairVars
  /\ UNCHANGED concurrentVars
  /\ UNCHANGED probeVars
  /\ UNCHANGED taskVars
  /\ UNCHANGED cacheVars

\* tryLLMCategorization settles: step 5's result, or the catch of
\* CrawlerManager.searchProducts.
CrawlReturn ==
  /\ cpc = "categorize"
  /\ pc = "done"
  /\ LET platforms == IF request.filters.given THEN request.filters.platforms
                      ELSE DefaultPlatforms
     IN  crawlResult' =
           IF result.success
           THEN [success |-> TRUE, mode |-> "category_summary",
                 categories |-> result.categories,
                 hasProducts |-> FALSE, products |-> <<>>, totalProducts |-> Len(products),
                 platformResults |-> SuccessfulResults(platforms, settled),
                 failedPlatforms |-> FailedPlatforms(platforms, settled),
                 summary |-> Summary(Len(SuccessfulResults(platforms, settled)),
                                     Len(FailedPlatforms(platforms, settled)))]
           ELSE FailedCrawl
  /\ cpc' = "done"
  /\ UNCHANGED <<spc, request, searchOut, searchCache, settled, served, made, settleOrder>>
  /\ UNCHANGED parseVars
  /\ UNCHANGED webVars
  /\ UNCHANGED repairVars
  /\ UNCHANGED concurrentVars
  /\ UNCHANGED probeVars
  /\ UNCHANGED taskVars
  /\ UNCHANGED llmVars
  /\ UNCHANGED cacheVars

\* The products of the categories, each with its category's name.
RECURSIVE FlattenCategories(_)
FlattenCategories(categories) ==
  IF categories = <<>> THEN <<>>
  ELSE LET c == Head(categories)
       IN  [i \in 1..Len(c.products) |->
              [id |-> c.products[i].id, name |-> c.products[i].name,
               price |-> c.products[i].price, platform |-> c.products[i].platform,
               category |-> c.name]]
           \o FlattenCategories(Tail(categories))

\* calculatePriceRange
calculatePriceRange(prods) == PriceStats(prods)

AllProductsCategory(prods) ==
  [name |-> CatName("all products", 0),
   totalProducts |-> Len(prods),
   priceRange |-> calculatePriceRange(prods),
   platforms |-> {prods[i].platform : i \in 1..Len(prods)},
   products |-> Slice(prods, 0, AllProductsShown)]

\* categoryArray and categorizedProducts of searchProducts, from the value
\* crawlerManager.searchProducts returned.
CategoryArray(req, crawl) ==
  IF req.categorySummary /\ crawl.mode = "category_summary" THEN crawl.categories
  ELSE IF crawl.hasProducts THEN <<AllProductsCategory(crawl.products)>>
  ELSE <<AllProductsCategory(<<>>)>>

CategorizedProducts(req, crawl) ==
  IF req.categorySummary /\ crawl.mode = "category_summary"
  THEN FlattenCategories(crawl.categories)
  ELSE IF crawl.hasProducts THEN crawl.products
  ELSE <<>>

\* cacheData, with the age of its timestamp and, as history, the request of
\* the search whose result it holds.
CacheData(req, crawl) ==
  [key |-> cacheKeyOf(req), products |-> CategorizedProducts(req, crawl),
   categories |-> CategoryArray(req, crawl), age |-> 0, source |-> req]

\* searchCache.set(cacheKey, cacheData) and the removal of the first key
\* when the Map holds more than 100.
StoreResult(c, entry) ==
  LET stored == MapSet(c, entry)
  IN  IF Len(stored) > SearchCacheLimit THEN Tail(stored) ELSE stored

\* crawlerManager.searchProducts has returned: the rest of searchProducts.
SearchFinish ==
  /\ spc = "crawl"
  /\ cpc = "done"
  /\ IF ~crawlResult.success
     THEN /\ searchOut' = Thrown
          /\ UNCHANGED searchCache
     ELSE \E page \in Pages, limit \in Limits :
          /\ searchCache' = StoreResult(searchCache, CacheData(request, crawlResult))
          /\ searchOut' = Paginated(CategorizedProducts(request, crawlResult),
                                    CategoryArray(request, crawlResult), page, limit, FALSE)
  /\ spc' = "done"
  /\ UNCHANGED <<request, cpc, settled, crawlResult, served, made, settleOrder>>
  /\ UNCHANGED parseVars
  /\ UNCHANGED webVars
  /\ UNCHANGED repairVars
  /\ UNCHANGED concurrentVars
  /\ UNCHANGED probeVars
  /\ UNCHANGED taskVars
  /\ UNCHANGED llmVars
  /\ UNCHANGED cacheVars

SearchNext ==
  \/ SearchStart
  \/ FetchSettles
  \/ CrawlMerge
  \/ TryGemini
  \/ TryOllama
  \/ GeminiAttempt
  \/ OllamaHealth
  \/ OllamaAttempt
  \/ CrawlReturn
  \/ SearchFinish

(***************************************************************************)
(* searchService over several calls: searchProducts and                    *)
(* getCategoryProducts, each call taken as a whole together with the       *)
(* value crawlerManager.searchProducts returns to it, and the passing of   *)
(* time between calls.                                                     *)
(***************************************************************************)
\* Most calls made on the service in one run.
MaxServiceCalls == 2

\* The oldest age, in quarters of an hour, an entry is let to reach.
MaxAge == 2

\* The limit of the search getCategoryProducts runs.
CategoryFetchLimit == 100

\* A string that is compared with category names, written as a name.
Term(word) == CatName(word, 0)

ServiceQueries == {Term("phone")}

ServiceSorts == {"relevance"}

\* The page sizes asked for: one product a page.
ServiceLimits == {1}

CategoryNames == {CatName("category", 1)}

CategorySorts == {"price_asc", "price_desc", "relevance"}

\* No minPrice, the minPrice of the oldest entry of a full cache, and a
\* minPrice no entry of it has.
ServiceFilters ==
  {[NoFilters EXCEPT !.minPrice = m] : m \in {0, 1, SearchCacheLimit + 1}}

\* What crawlerManager.searchProducts returns when PChome alone answers
\* with n products: classified into two categories, or as a sorted list.
ClassifiedCrawl(n) ==
  LET successfulResults == SuccessfulResults(<<"pchome">>, <<Fulfilled("pchome", n)>>)
      allProducts == MergeProducts(successfulResults)
      half == CeilDiv(n, 2)
  IN  [success |-> TRUE, mode |-> "category_summary",
       categories |->
         <<createCategoryFromProducts(CatName("category", 1), SubSeq(allProducts, 1, half)),
           createCategoryFromProducts(CatName("category", 2), SubSeq(allProducts, half + 1, n))>>,
       hasProducts |-> FALSE, products |-> <<>>, totalProducts |-> n,
       platformResults |-> successfulResults, failedPlatforms |-> <<>>,
       summary |-> Summary(Len(successfulResults), 0)]

ListCrawl(n, sortBy) ==
  LET successfulResults == SuccessfulResults(<<"pchome">>, <<Fulfilled("pchome", n)>>)
      allProducts == MergeProducts(successfulResults)
  IN  [success |-> TRUE, mode |-> "product_list", categories |-> <<>>,
       hasProducts |-> TRUE, products |-> SortByPrice(allProducts, sortBy),
       totalProducts |-> n,
       platformResults |-> successfulResults, failedPlatforms |-> <<>>,
       summary |-> Summary(Len(successfulResults), 0)]

\* What it returns when no platform has a product.
EmptyCrawl ==
  [success |-> TRUE, mode |-> "category_summary", categories |-> <<>>,
   hasProducts |-> FALSE, products |-> <<>>, totalProducts |-> 0,
   platformResults |-> <<>>,
   failedPlatforms |-> FailedPlatforms(<<"pchome">>, <<Unsuccessful("blocked")>>),
   summary |-> Summary(0, 1)]

\* The values a crawl returns to a search, by what the platforms hold: a
\* few products ("few"), or more than the "all products" category shows
\* and more than getCategoryProducts asks for ("many").
Stocks == {"few", "many"}

CrawlReturns(req, stock) ==
  IF stock = "few"
  THEN IF req.categorySummary THEN {FailedCrawl, ClassifiedCrawl(2)}
       ELSE {EmptyCrawl, ListCrawl(2, req.sort)}
  ELSE IF req.categorySummary THEN {ClassifiedCrawl(CategoryFetchLimit + 1)}
       ELSE {ListCrawl(AllProductsShown + 1, req.sort)}

\* A searchProducts that still serves an entry at the age of CACHE_TTL.
searchProductsStale(c, req, page, limit, crawl) ==
  LET at == IndexOfKey(c, cacheKeyOf(req))
  IN  IF at # 0 /\ c[at].age <= CACHE_TTL
      THEN [out |-> Paginated(c[at].products, c[at].categories, page, limit, TRUE),
            cache |-> c, crawled |-> NoCrawl, stored |-> FALSE]
      ELSE IF ~crawl.success
      THEN [out |-> Thrown, cache |-> c, crawled |-> crawl, stored |-> FALSE]
      ELSE [out |-> Paginated(CategorizedProducts(req, crawl), CategoryArray(req, crawl),
                              page, limit, FALSE),
            cache |-> StoreResult(c, CacheData(req, crawl)),
            crawled |-> crawl, stored |-> TRUE]

\* searchProducts on the cache c, with the value its crawl returns when it
\* runs one: what it returns or throws, the cache it leaves, the crawl it
\* ran, whether it stored an entry.
searchProducts(c, req, page, limit, crawl) ==
  LET at == IndexOfKey(c, cacheKeyOf(req))
  IN  IF at # 0 /\ c[at].age < CACHE_TTL
      THEN [out |-> Paginated(c[at].products, c[at].categories, page, limit, TRUE),
            cache |-> c, crawled |-> NoCrawl, stored |-> FALSE]
      ELSE IF ~crawl.success
      THEN [out |-> Thrown, cache |-> c, crawled |-> crawl, stored |-> FALSE]
      ELSE [out |-> Paginated(CategorizedProducts(req, crawl), CategoryArray(req, crawl),
                              page, limit, FALSE),
            cache |-> StoreResult(c, CacheData(req, crawl)),
            crawled |-> crawl, stored |-> TRUE]

\* sortProducts: the crawled products carry no searchRelevance, so the
\* relevance order is the order of the list.
sortProducts(prods, sortBy) ==
  IF sortBy \in {"price_asc", "price_desc"} THEN SortByPrice(prods, sortBy) ELSE prods

\* The request getCategoryProducts looks up and the one it searches with.
CategoryRequest(query) ==
  [query |-> query, filters |-> NoFilters, sort |-> "relevance", categorySummary |-> TRUE]

\* The unified format of a product of a category.
FormattedProduct(p, categoryName) ==
  [id |-> IF p.id # NoId THEN p.id ELSE RandomProductId, name |-> p.name, price |-> p.price,
   platform |-> CASE p.platform = "pchome" -> "PChome 24h"
                  [] p.platform = "momo" -> "momo shopping"
                  [] p.platform = "" -> "unknown platform"
                  [] OTHER -> p.platform,
   category |-> categoryName]

\* getCategoryProducts on the cache c: as searchProducts above, and the
\* keys of the searchProducts calls it made that returned.
getCategoryProducts(c, originalQuery, categoryName, sortBy, page, limit, crawl) ==
  LET cacheKey == cacheKeyOf(CategoryRequest(originalQuery))
      at == IndexOfKey(c, cacheKey)
      miss == at = 0 \/ c[at].age >= CACHE_TTL
      searchResult == searchProducts(c, CategoryRequest(categoryName), 1,
                                     CategoryFetchLimit, crawl)
      cachedResult ==
        IF miss
        THEN [key |-> cacheKey, products |-> searchResult.out.products,
              categories |-> searchResult.out.categories, age |-> 0,
              source |-> CategoryRequest(categoryName)]
        ELSE c[at]
      categoryProducts ==
        SelectSeq(cachedResult.products,
                  LAMBDA p : "category" \in DOMAIN p /\ p.category = categoryName)
      sortedProducts == sortProducts(categoryProducts, sortBy)
      startIndex == (page - 1) * limit
      paginatedProducts == Slice(sortedProducts, startIndex, startIndex + limit)
  IN  IF miss /\ searchResult.out.status = "thrown"
      THEN [out |-> Thrown, cache |-> searchResult.cache, crawled |-> searchResult.crawled,
            stored |-> FALSE, calls |-> <<>>]
      ELSE [out |-> [status |-> "returned",
                     products |-> [i \in 1..Len(paginatedProducts) |->
                                     FormattedProduct(paginatedProducts[i], categoryName)],
                     total |-> Len(categoryProducts), page |-> page, limit |-> limit,
                     hasMore |-> startIndex + limit < Len(categoryProducts),
                     categories |-> <<>>, fromCache |-> TRUE],
            cache |-> IF miss THEN MapSet(searchResult.cache, cachedResult) ELSE c,
            crawled |-> IF miss THEN searchResult.crawled ELSE NoCrawl,
            stored |-> miss,
            calls |-> IF miss THEN <<cacheKeyOf(CategoryRequest(categoryName))>> ELSE <<>>]

\* The age of the entry of key in c, -1 when c has none.
AgeOf(c, key) ==
  LET at == IndexOfKey(c, key)
  IN  IF at = 0 THEN -1 ELSE c[at].age

\* A cache that earlier searches have filled: n entries, the oldest first,
\* each the result of a search with its own minPrice that found nothing.
FilledCache(n) ==
  [i \in 1..n |->
     CacheData([CategoryRequest(Term("phone")) EXCEPT !.filters.minPrice = i], EmptyCrawl)]

\* The keys the calls below look up.
ServiceKeys ==
  {cacheKeyOf([query |-> q, filters |-> f, sort |-> srt]) :
     q \in ServiceQueries \cup CategoryNames, f \in ServiceFilters, srt \in ServiceSorts}

\* made after one more successful searchProducts call with each of keys.
MadeNow(m, keys) == [k \in ServiceKeys |-> IF k \in keys THEN 0 ELSE m[k]]

ServiceInit ==
  /\ \E n \in {0, SearchCacheLimit} :
       /\ searchCache = FilledCache(n)
       /\ made = [k \in ServiceKeys |-> IF IndexOfKey(FilledCache(n), k) # 0 THEN 0 ELSE -1]
  /\ served = NoCall
  /\ settleOrder = <<>>
  /\ spc = "idle"
  /\ request = NoRequest
  /\ searchOut = NoOutput
  /\ cpc = "idle"
  /\ settled = <<>>
  /\ crawlResult = NoCrawl

SearchProductsCall(stock) ==
  /\ served.count < MaxServiceCalls
  /\ \E query \in ServiceQueries, filters \in ServiceFilters, sort \in ServiceSorts,
        categorySummary \in BOOLEAN, page \in Pages, limit \in ServiceLimits :
       LET req == [query |-> query, filters |-> filters, sort |-> sort,
                   categorySummary |-> categorySummary]
       IN  \E crawl \in CrawlReturns(req, stock) :
             LET r == searchProducts(searchCache, req, page, limit, crawl)
             IN  /\ request' = req
                 /\ searchOut' = r.out
                 /\ searchCache' = r.cache
                 /\ crawlResult' = r.crawled
                 /\ served' = [op |-> "search", count |-> served.count + 1,
                               categoryName |-> CatName("", 0),
                               repeat |-> made[cacheKeyOf(req)] # -1,
                               sawAge |-> AgeOf(searchCache, cacheKeyOf(req)),
                               wrote |-> r.stored, since |-> 0]
                 /\ made' = IF r.out.status = "returned"
                            THEN MadeNow(made, {cacheKeyOf(req)})
                            ELSE made
  /\ UNCHANGED <<spc, cpc, settled, settleOrder>>
  /\ UNCHANGED parseVars
  /\ UNCHANGED webVars
  /\ UNCHANGED repairVars
  /\ UNCHANGED concurrentVars
  /\ UNCHANGED probeVars
  /\ UNCHANGED taskVars
  /\ UNCHANGED llmVars
  /\ UNCHANGED cacheVars

GetCategoryProductsCall(stock) ==
  /\ served.count < MaxServiceCalls
  /\ \E originalQuery \in ServiceQueries, categoryName \in CategoryNames,
        sortBy \in CategorySorts, page \in Pages, limit \in ServiceLimits :
     \E crawl \in CrawlReturns(CategoryRequest(categoryName), stock) :
       LET r == getCategoryProducts(searchCache, originalQuery, categoryName, sortBy,
                                    page, limit, crawl)
           cacheKey == cacheKeyOf(CategoryRequest(originalQuery))
       IN  /\ request' = CategoryRequest(originalQuery)
           /\ searchOut' = r.out
           /\ searchCache' = r.cache
           /\ crawlResult' = r.crawled
           /\ served' = [op |-> "category", count |-> served.count + 1,
                         categoryName |-> categoryName,
                         repeat |-> made[cacheKey] # -1,
                         sawAge |-> AgeOf(searchCache, cacheKey),
                         wrote |-> r.stored, since |-> 0]
           /\ made' = MadeNow(made, Range(r.calls))
  /\ UNCHANGED <<spc, cpc, settled, settleOrder>>
  /\ UNCHANGED parseVars
  /\ UNCHANGED webVars
  /\ UNCHANGED repairVars
  /\ UNCHANGED concurrentVars
  /\ UNCHANGED probeVars
  /\ UNCHANGED taskVars
  /\ UNCHANGED llmVars
  /\ UNCHANGED cacheVars

\* A quarter of an hour passes between two calls.
QuarterPasses ==
  /\ searchCache # <<>>
  /\ \A i \in 1..Len(searchCache) : searchCache[i].age < MaxAge
  /\ searchCache' = [i \in 1..Len(searchCache) |-> [searchCache[i] EXCEPT !.age = @ + 1]]
  /\ made' = [k \in ServiceKeys |->
                IF made[k] = -1 \/ made[k] + 1 >= CACHE_TTL THEN -1 ELSE made[k] + 1]
  /\ served' = [served EXCEPT !.since = @ + 1]
  /\ UNCHANGED <<spc, request, searchOut, cpc, settled, crawlResult, settleOrder>>
  /\ UNCHANGED parseVars
  /\ UNCHANGED webVars
  /\ UNCHANGED repairVars
  /\ UNCHANGED concurrentVars
  /\ UNCHANGED probeVars
  /\ UNCHANGED taskVars
  /\ UNCHANGED llmVars
  /\ UNCHANGED cacheVars

ServiceNext ==
  \/ SearchProductsCall("few")
  \/ GetCategoryProductsCall("few")
  \/ QuarterPasses

BulkNext ==
  \/ SearchProductsCall("many")
  \/ GetCategoryProductsCall("many")
  \/ QuarterPasses

(***************************************************************************)
(* BaseCrawler.init, BaseCrawler.cleanup and a crawler's searchViaWeb.     *)
(* MomoCrawler and PChomeCrawler give searchViaWeb the same frame: init,   *)
(* then the page work in a try whose finally is cleanup.  CrawlerManager   *)
(* keeps one crawler per platform, so every call on a platform runs on the *)
(* same object.  A call is taken from await to await.  The handles         *)
(* puppeteer gives out are numbered in the order it makes them; null is 0. *)
(***************************************************************************)
\* Most searchViaWeb calls made on the crawler.
MaxWebCalls == 2

WebCalls == 1..MaxWebCalls

NullHandle == 0

\* A call: the await it stands at, the handle the awaited operation was
\* called on, and how searchViaWeb settled.
WebCall(where, handle, outcome) == [pc |-> where, target |-> handle, outcome |-> outcome]

NotStarted == WebCall("idle", NullHandle, "none")

\* A browser (parent 0) or a page of the browser parent.
Handle(parent) == [open |-> TRUE, parent |-> parent]

\* chrome after the handle h is closed: a browser takes its pages with it.
Closed(ch, h) ==
  [i \in 1..Len(ch) |-> IF i = h \/ ch[i].parent = h THEN [ch[i] EXCEPT !.open = FALSE] ELSE ch[i]]

WebQuiet ==
  /\ thisBrowser = NullHandle
  /\ thisPage = NullHandle
  /\ chrome = <<>>
  /\ web = [c \in WebCalls |-> NotStarted]

\* The crawler as its constructor leaves it, and no call made yet.
WebInit == WebQuiet

\* The page work of searchViaWeb from its first use of this.page: a null
\* page throws inside the try, whose finally is cleanup.
EnterTry(c, pg, br) ==
  IF pg # NullHandle
  THEN WebCall("scrape", pg, "none")
  ELSE IF br # NullHandle THEN WebCall("closeBrowser", br, "thrown")
  ELSE WebCall("done", NullHandle, "thrown")

\* cleanup up to its first await, with the way searchViaWeb is to settle.
EnterCleanup(pg, br, outcome) ==
  IF pg # NullHandle THEN WebCall("closePage", pg, outcome)
  ELSE IF br # NullHandle THEN WebCall("closeBrowser", br, outcome)
  ELSE WebCall("done", NullHandle, outcome)

\* searchViaWeb is called: init up to its first await.
WebStart(c) ==
  /\ web[c].pc = "idle"
  /\ web' = [web EXCEPT ![c] =
               IF thisBrowser = NullHandle THEN WebCall("launch", NullHandle, "none")
               ELSE IF thisPage = NullHandle THEN WebCall("newPage", thisBrowser, "none")
               ELSE EnterTry(c, thisPage, thisBrowser)]
  /\ UNCHANGED <<thisBrowser, thisPage, chrome>>
  /\ UNCHANGED parseVars
  /\ UNCHANGED repairVars
  /\ UNCHANGED concurrentVars
  /\ UNCHANGED probeVars
  /\ UNCHANGED taskVars
  /\ UNCHANGED llmVars
  /\ UNCHANGED cacheVars
  /\ UNCHANGED searchVars

\* puppeteer.launch settles.
WebLaunched(c) ==
  /\ web[c].pc = "launch"
  /\ \E ok \in BOOLEAN :
       IF ok
       THEN LET h == Len(chrome) + 1
            IN  /\ chrome' = Append(chrome, Handle(NullHandle))
                /\ thisBrowser' = h
                /\ web' = [web EXCEPT ![c] =
                             IF thisPage = NullHandle THEN WebCall("newPage", h, "none")
                             ELSE EnterTry(c, thisPage, h)]
                /\ UNCHANGED thisPage
       ELSE /\ web' = [web EXCEPT ![c] = WebCall("done", NullHandle, "thrown")]
            /\ UNCHANGED <<thisBrowser, thisPage, chrome>>
  /\ UNCHANGED parseVars
  /\ UNCHANGED repairVars
  /\ UNCHANGED concurrentVars
  /\ UNCHANGED probeVars
  /\ UNCHANGED taskVars
  /\ UNCHANGED llmVars
  /\ UNCHANGED cacheVars
  /\ UNCHANGED searchVars

\* browser.newPage settles.
WebPageOpened(c) ==
  /\ web[c].pc = "newPage"
  /\ \E ok \in BOOLEAN :
       IF ok /\ chrome[web[c].target].open
       THEN LET h == Len(chrome) + 1
            IN  /\ chrome' = Append(chrome, Handle(web[c].target))
                /\ thisPage' = h
                /\ web' = [web EXCEPT ![c] = WebCall("setup", h, "none")]
                /\ UNCHANGED thisBrowser
       ELSE /\ web' = [web EXCEPT ![c] = WebCall("done", NullHandle, "thrown")]
            /\ UNCHANGED <<thisBrowser, thisPage, chrome>>
  /\ UNCHANGED parseVars
  /\ UNCHANGED repairVars
  /\ UNCHANGED concurrentVars
  /\ UNCHANGED probeVars
  /\ UNCHANGED taskVars
  /\ UNCHANGED llmVars
  /\ UNCHANGED cacheVars
  /\ UNCHANGED searchVars

\* The settings of the new page are made (setUserAgent, setViewport,
\* setRequestInterception): init returns and the try begins, or init throws.
WebSetUp(c) ==
  /\ web[c].pc = "setup"
  /\ \E ok \in BOOLEAN :
       web' = [web EXCEPT ![c] =
                 IF ok /\ chrome[web[c].target].open /\ thisPage # NullHandle
                 THEN EnterTry(c, thisPage, thisBrowser)
                 ELSE WebCall("done", NullHandle, "thrown")]
  /\ UNCHANGED <<thisBrowser, thisPage, chrome>>
  /\ UNCHANGED parseVars
  /\ UNCHANGED repairVars
  /\ UNCHANGED concurrentVars
  /\ UNCHANGED probeVars
  /\ UNCHANGED taskVars
  /\ UNCHANGED llmVars
  /\ UNCHANGED cacheVars
  /\ UNCHANGED searchVars

\* The page work ends: with the products, or with an error (a selector that
\* never shows, a navigation timeout, a page that was closed); the finally
\* runs cleanup up to its first await.
WebScraped(c) ==
  /\ web[c].pc = "scrape"
  /\ \E ok \in BOOLEAN :
       web' = [web EXCEPT ![c] =
                 EnterCleanup(thisPage, thisBrowser,
                              IF ok /\ chrome[web[c].target].open /\ thisPage # NullHandle
                              THEN "returned" ELSE "thrown")]
  /\ UNCHANGED <<thisBrowser, thisPage, chrome>>
  /\ UNCHANGED parseVars
  /\ UNCHANGED repairVars
  /\ UNCHANGED concurrentVars
  /\ UNCHANGED probeVars
  /\ UNCHANGED taskVars
  /\ UNCHANGED llmVars
  /\ UNCHANGED cacheVars
  /\ UNCHANGED searchVars

\* page.close settles: this.page = null and the browser's turn, or the
\* catch of cleanup.
WebPageClosed(c) ==
  /\ web[c].pc = "closePage"
  /\ \E ok \in BOOLEAN :
       IF ok
       THEN /\ chrome' = Closed(chrome, web[c].target)
            /\ thisPage' = NullHandle
            /\ web' = [web EXCEPT ![c] =
                         IF thisBrowser # NullHandle
                         THEN WebCall("closeBrowser", thisBrowser, web[c].outcome)
                         ELSE WebCall("done", NullHandle, web[c].outcome)]
            /\ UNCHANGED thisBrowser
       ELSE /\ web' = [web EXCEPT ![c] = WebCall("done", NullHandle, web[c].outcome)]
            /\ UNCHANGED <<thisBrowser, thisPage, chrome>>
  /\ UNCHANGED parseVars
  /\ UNCHANGED repairVars
  /\ UNCHANGED concurrentVars
  /\ UNCHANGED probeVars
  /\ UNCHANGED taskVars
  /\ UNCHANGED llmVars
  /\ UNCHANGED cacheVars
  /\ UNCHANGED searchVars

\* browser.close settles: this.browser = null, or the catch of cleanup.
WebBrowserClosed(c) ==
  /\ web[c].pc = "closeBrowser"
  /\ \E ok \in BOOLEAN :
       IF ok
       THEN /\ chrome' = Closed(chrome, web[c].target)
            /\ thisBrowser' = NullHandle
            /\ UNCHANGED thisPage
       ELSE UNCHANGED <<thisBrowser, thisPage, chrome>>
  /\ web' = [web EXCEPT ![c] = WebCall("done", NullHandle, web[c].outcome)]
  /\ UNCHANGED parseVars
  /\ UNCHANGED repairVars
  /\ UNCHANGED concurrentVars
  /\ UNCHANGED probeVars
  /\ UNCHANGED taskVars
  /\ UNCHANGED llmVars
  /\ UNCHANGED cacheVars
  /\ UNCHANGED searchVars

WebNext ==
  \/ \E c \in WebCalls : WebStart(c)
  \/ \E c \in WebCalls : WebLaunched(c)
  \/ \E c \in WebCalls : WebPageOpened(c)
  \/ \E c \in WebCalls : WebSetUp(c)
  \/ \E c \in WebCalls : WebScraped(c)
  \/ \E c \in WebCalls : WebPageClosed(c)
  \/ \E c \in WebCalls : WebBrowserClosed(c)

(***************************************************************************)
(* repairJSON.                                                             *)
(* A text is the sequence of its characters.  The characters kept are the  *)
(* ones JSON.parse and the four repair steps tell apart: the punctuation   *)
(* of JSON, a digit, the line feed (U+000A: whitespace between tokens, not *)
(* allowed inside a string, a control character for step 4) and DEL        *)
(* (U+007F: allowed inside a string only, a control character for step 4). *)
(***************************************************************************)
MaxText == 4      \* longest text given to repairJSON

JsonChars ==
  {"lbrace", "rbrace", "lbracket", "rbracket", "comma", "colon", "quote", "digit",
   "newline", "del"}

Texts == UNION {[1..n -> JsonChars] : n \in 0..MaxText}

\* The first position from i on that holds no whitespace.
RECURSIVE SkipWs(_, _)
SkipWs(t, i) == IF i <= Len(t) /\ t[i] = "newline" THEN SkipWs(t, i + 1) ELSE i

\* The grammar of JSON.  Each operator reads one construct starting at
\* position i and gives the position after it, or 0 when there is none.
ParseString(t, i) ==
  IF \E j \in (i + 1)..Len(t) : t[j] = "quote"
  THEN LET j == CHOOSE x \in (i + 1)..Len(t) :
                  t[x] = "quote" /\ \A y \in (i + 1)..(x - 1) : t[y] # "quote"
       IN  IF \E y \in (i + 1)..(j - 1) : t[y] = "newline" THEN 0 ELSE j + 1
  ELSE 0

RECURSIVE ParseNumber(_, _)
ParseNumber(t, i) == IF i <= Len(t) /\ t[i] = "digit" THEN ParseNumber(t, i + 1) ELSE i

RECURSIVE ParseValue(_, _)
RECURSIVE ParseElements(_, _)
RECURSIVE ParseMembers(_, _)

ParseValue(t, i) ==
  IF i > Len(t) THEN 0
  ELSE IF t[i] = "lbrace"
  THEN LET j == SkipWs(t, i + 1)
       IN  IF j <= Len(t) /\ t[j] = "rbrace" THEN j + 1 ELSE ParseMembers(t, j)
  ELSE IF t[i] = "lbracket"
  THEN LET j == SkipWs(t, i + 1)
       IN  IF j <= Len(t) /\ t[j] = "rbracket" THEN j + 1 ELSE ParseElements(t, j)
  ELSE IF t[i] = "quote" THEN ParseString(t, i)
  ELSE IF t[i] = "digit" THEN ParseNumber(t, i + 1)
  ELSE 0

ParseElements(t, i) ==
  LET j == ParseValue(t, i)
      k == SkipWs(t, j)
  IN  IF j = 0 \/ k > Len(t) THEN 0
      ELSE IF t[k] = "comma" THEN ParseElements(t, SkipWs(t, k + 1))
      ELSE IF t[k] = "rbracket" THEN k + 1
      ELSE 0

ParseMembers(t, i) ==
  IF i > Len(t) \/ t[i] # "quote" THEN 0
  ELSE LET j == ParseString(t, i)
           c == SkipWs(t, j)
       IN  IF j = 0 \/ c > Len(t) \/ t[c] # "colon" THEN 0
           ELSE LET v == ParseValue(t, SkipWs(t, c + 1))
                    k == SkipWs(t, v)
                IN  IF v = 0 \/ k > Len(t) THEN 0
                    ELSE IF t[k] = "comma" THEN ParseMembers(t, SkipWs(t, k + 1))
                    ELSE IF t[k] = "rbrace" THEN k + 1
                    ELSE 0

\* JSON.parse(text): the text is one value between optional whitespace, or
\* a SyntaxError.  The value is written as the text without its whitespace.
JSONparse(text) ==
  LET j == ParseValue(text, SkipWs(text, 1))
  IN  IF j # 0 /\ SkipWs(text, j) = Len(text) + 1
      THEN [ok |-> TRUE, value |-> SelectSeq(text, LAMBDA ch : ch # "newline")]
      ELSE [ok |-> FALSE, value |-> <<>>]

\* Step 1: replace(/,(\s*[}\]])/g, '$1'), a comma before a closing brace or
\* bracket goes.
RemoveTrailingCommas(t) ==
  LET keep == {i \in 1..Len(t) :
                 ~(/\ t[i] = "comma"
                   /\ SkipWs(t, i + 1) <= Len(t)
                   /\ t[SkipWs(t, i + 1)] \in {"rbrace", "rbracket"})}
      index == [n \in 1..Cardinality(keep) |->
                  CHOOSE i \in keep : Cardinality({j \in keep : j <= i}) = n]
  IN  [n \in 1..Cardinality(keep) |-> t[index[n]]]

\* The end of the run of characters from i on that are none of " , } ]
RECURSIVE RunEnd(_, _)
RunEnd(t, i) ==
  IF i <= Len(t) /\ t[i] \notin {"quote", "comma", "rbrace", "rbracket"}
  THEN RunEnd(t, i + 1) ELSE i

\* Step 2: replace(/("[^"]*")([^",}\]]*)/g, '$1'), from position i on: what
\* follows a quoted string up to the next " , } or ] goes.
RECURSIVE TruncateStrings(_, _)
TruncateStrings(t, i) ==
  IF i > Len(t) THEN <<>>
  ELSE IF t[i] = "quote" /\ \E j \in (i + 1)..Len(t) : t[j] = "quote"
  THEN LET j == CHOOSE x \in (i + 1)..Len(t) :
                  t[x] = "quote" /\ \A y \in (i + 1)..(x - 1) : t[y] # "quote"
       IN  SubSeq(t, i, j) \o TruncateStrings(t, RunEnd(t, j + 1))
  ELSE <<t[i]>> \o TruncateStrings(t, i + 1)

Occurs(t, ch) == Cardinality({i \in 1..Len(t) : t[i] = ch})

Repeat(ch, n) == [i \in 1..n |-> ch]

\* Step 3: the closing braces, then the closing brackets, that are fewer
\* than the opening ones are added at the end.
BalanceBrackets(t) ==
  LET braces == Occurs(t, "lbrace") - Occurs(t, "rbrace")
      t1 == IF braces > 0 THEN t \o Repeat("rbrace", braces) ELSE t
      brackets == Occurs(t1, "lbracket") - Occurs(t1, "rbracket")
  IN  IF brackets > 0 THEN t1 \o Repeat("rbracket", brackets) ELSE t1

\* Step 4: replace(/[\u0000-\u001F\u007F-\u009F]/g, '')
StripControlChars(t) == SelectSeq(t, LAMBDA ch : ch \notin {"newline", "del"})

RepairSteps == <<"commas", "strings", "brackets", "control">>

RepairReturned(value, steps) == [status |-> "returned", value |-> value, steps |-> steps]

RepairThrown(steps) == [status |-> "thrown", value |-> <<>>, steps |-> steps]

NotCalled == [status |-> "none", value |-> <<>>, steps |-> <<>>]

\* The catch of repairJSON: the four steps, then JSON.parse again.
RepairCascade(text) ==
  LET repaired ==
        StripControlChars(BalanceBrackets(TruncateStrings(RemoveTrailingCommas(text), 1)))
      second == JSONparse(repaired)
  IN  IF second.ok THEN RepairReturned(second.value, RepairSteps) ELSE RepairThrown(RepairSteps)

\* repairJSON without its first JSON.parse.
repairJSONAlways(text) == RepairCascade(text)

repairJSON(text) ==
  LET first == JSONparse(text)
  IN  IF first.ok THEN RepairReturned(first.value, <<>>) ELSE RepairCascade(text)

RepairQuiet ==
  /\ jsonString = <<>>
  /\ parsedData = NotCalled

RepairInit ==
  /\ jsonString \in Texts
  /\ parsedData = NotCalled

\* repairJSON(jsonString) is called.
Repair ==
  /\ parsedData = NotCalled
  /\ parsedData' = repairJSON(jsonString)
  /\ UNCHANGED jsonString
  /\ UNCHANGED parseVars
  /\ UNCHANGED webVars
  /\ UNCHANGED concurrentVars
  /\ UNCHANGED probeVars
  /\ UNCHANGED taskVars
  /\ UNCHANGED llmVars
  /\ UNCHANGED cacheVars
  /\ UNCHANGED searchVars

(***************************************************************************)
(* CrawlerService: triggerCrawler, stopCrawler and the simulated           *)
(* execution each triggerCrawler schedules.  The execution is a timer      *)
(* callback that runs _simulateCrawlerExecution, which awaits a second     *)
(* timer; stopCrawler and cleanupOldLogs calls run between the two and      *)
(* around them.  Every task is younger than a day.                         *)
(***************************************************************************)
\* Most tasks triggered on the service.
MaxTasks == 2

\* generateCrawlerId: a new id each call, written as the number of the call.
CrawlerIds == 1..MaxTasks

\* platform || 'all'
TaskPlatforms == {"all", "pchome"}

CrawlerTask(id, platform, status, message) ==
  [id |-> id, platform |-> platform, status |-> status, message |-> message]

\* this.crawlerHistory.find(log => log.id === crawlerId): the position of
\* the first task with the id, 0 when there is none.
FindTask(history, crawlerId) ==
  IF \E i \in 1..Len(history) : history[i].id = crawlerId
  THEN CHOOSE i \in 1..Len(history) :
         history[i].id = crawlerId /\ \A j \in 1..(i - 1) : history[j].id # crawlerId
  ELSE 0

\* The status of the task with the id, "none" when there is none.
StatusOf(history, crawlerId) ==
  IF FindTask(history, crawlerId) = 0 THEN "none"
  ELSE history[FindTask(history, crawlerId)].status

NoStop == [status |-> "none", id |-> 0, platform |-> "", task |-> ""]

StopReturned(id, platform) ==
  [status |-> "returned", id |-> id, platform |-> platform, task |-> "stopped"]

StopThrown(id, message) == [status |-> "thrown", id |-> id, platform |-> "", task |-> message]

\* The triggerCrawler calls made so far.
Triggered == Cardinality({id \in CrawlerIds : executions[id] # "none"})

\* daysToKeep of cleanupOldLogs: its default, and 0, with which the cutoff is
\* the time of the call.
DaysToKeep == {0, 30}

TaskQuiet ==
  /\ crawlerHistory = <<>>
  /\ executions = [id \in CrawlerIds |-> "none"]
  /\ stopOut = NoStop

\* triggerCrawler(platform): the task is put at the head of the history and
\* the timer of its execution is set.
TriggerCrawler(platform) ==
  /\ Triggered < MaxTasks
  /\ LET crawlerId == Triggered + 1
     IN  /\ crawlerHistory' =
              <<CrawlerTask(crawlerId, platform, "triggered", "triggered by hand")>>
                \o crawlerHistory
         /\ executions' = [executions EXCEPT ![crawlerId] = "timer"]
  /\ UNCHANGED stopOut
  /\ UNCHANGED llmVars
  /\ UNCHANGED cacheVars
  /\ UNCHANGED <<parseVars, searchVars, webVars, repairVars, concurrentVars, probeVars>>

\* stopCrawler(crawlerId)
StopCrawler(crawlerId) ==
  /\ LET at == FindTask(crawlerHistory, crawlerId)
     IN  IF at = 0
         THEN /\ stopOut' = StopThrown(crawlerId, "task does not exist")
              /\ UNCHANGED crawlerHistory
         ELSE IF crawlerHistory[at].status \in {"running", "triggered"}
         THEN /\ crawlerHistory' =
                   [crawlerHistory EXCEPT ![at].status = "stopped",
                                          ![at].message = "stopped by the user"]
              /\ stopOut' = StopReturned(crawlerId, crawlerHistory[at].platform)
         ELSE /\ stopOut' = StopThrown(crawlerId, "task cannot be stopped")
              /\ UNCHANGED crawlerHistory
  /\ UNCHANGED executions
  /\ UNCHANGED llmVars
  /\ UNCHANGED cacheVars
  /\ UNCHANGED <<parseVars, searchVars, webVars, repairVars, concurrentVars, probeVars>>

\* cleanupOldLogs(daysToKeep): the tasks created before the cutoff go.
CleanupOldLogs(daysToKeep) ==
  /\ crawlerHistory # <<>>
  /\ crawlerHistory' = IF daysToKeep = 0 THEN <<>> ELSE crawlerHistory
  /\ UNCHANGED <<executions, stopOut>>
  /\ UNCHANGED llmVars
  /\ UNCHANGED cacheVars
  /\ UNCHANGED <<parseVars, searchVars, webVars, repairVars, concurrentVars, probeVars>>

\* The timer triggerCrawler set fires: _simulateCrawlerExecution up to its
\* await.
ExecutionStarts(crawlerId) ==
  /\ executions[crawlerId] = "timer"
  /\ LET at == FindTask(crawlerHistory, crawlerId)
     IN  IF at = 0
         THEN /\ executions' = [executions EXCEPT ![crawlerId] = "ended"]
              /\ UNCHANGED crawlerHistory
         ELSE /\ crawlerHistory' =
                   [crawlerHistory EXCEPT ![at].status = "running",
                                          ![at].message = "running"]
              /\ executions' = [executions EXCEPT ![crawlerId] = "run"]
  /\ UNCHANGED stopOut
  /\ UNCHANGED llmVars
  /\ UNCHANGED cacheVars
  /\ UNCHANGED <<parseVars, searchVars, webVars, repairVars, concurrentVars, probeVars>>

\* The awaited execution time is over: the rest of
\* _simulateCrawlerExecution, with either value of isSuccess.  It writes to
\* the task it found before the await, which cleanupOldLogs may have taken
\* out of the history since.
ExecutionEnds(crawlerId) ==
  /\ executions[crawlerId] = "run"
  /\ \E isSuccess \in BOOLEAN :
       LET at == FindTask(crawlerHistory, crawlerId)
       IN  IF at = 0 THEN UNCHANGED crawlerHistory
           ELSE crawlerHistory' =
                  [crawlerHistory EXCEPT
                     ![at].status = IF isSuccess THEN "success" ELSE "error",
                     ![at].message = IF isSuccess THEN "completed" ELSE "failed"]
  /\ executions' = [executions EXCEPT ![crawlerId] = "ended"]
  /\ UNCHANGED stopOut
  /\ UNCHANGED llmVars
  /\ UNCHANGED cacheVars
  /\ UNCHANGED <<parseVars, searchVars, webVars, repairVars, concurrentVars, probeVars>>

TaskNext ==
  \/ \E platform \in TaskPlatforms : TriggerCrawler(platform)
  \/ \E crawlerId \in CrawlerIds : StopCrawler(crawlerId)
  \/ \E daysToKeep \in DaysToKeep : CleanupOldLogs(daysToKeep)
  \/ \E crawlerId \in CrawlerIds : ExecutionStarts(crawlerId)
  \/ \E crawlerId \in CrawlerIds : ExecutionEnds(crawlerId)

(***************************************************************************)
(* Specifications.                                                         *)
(***************************************************************************)
SpecParseInit == ParseInit /\ LLMQuiet /\ CacheQuiet /\ SearchIdle /\ WebQuiet /\ RepairQuiet
  /\ ConcurrentQuiet /\ ProbeQuiet /\ TaskQuiet

SpecParse == SpecParseInit /\ [][Parse]_vars

SpecLLMInit == ParseQuiet /\ LLMInit /\ CacheQuiet /\ SearchIdle /\ WebQuiet /\ RepairQuiet
  /\ ConcurrentQuiet /\ ProbeQuiet /\ TaskQuiet

SpecLLM == SpecLLMInit /\ [][LLMNext]_vars

SpecCacheInit == ParseQuiet /\ LLMQuiet /\ CacheInit /\ SearchIdle /\ WebQuiet /\ RepairQuiet
  /\ ConcurrentQuiet /\ ProbeQuiet /\ TaskQuiet

SpecCache == SpecCacheInit /\ [][CacheNext]_vars

SpecSearchInit == ParseQuiet /\ CacheQuiet /\ SearchInit /\ WebQuiet /\ RepairQuiet
  /\ ConcurrentQuiet /\ ProbeQuiet /\ TaskQuiet

SpecSearch == SpecSearchInit /\ [][SearchNext]_vars

\* The event loop runs every continuation that is ready: a step that can be
\* taken is taken.
SpecSearchFair == SpecSearchInit /\ [][SearchNext]_vars /\ WF_vars(SearchNext)

SpecServiceInit ==
  ParseQuiet /\ LLMQuiet /\ CacheQuiet /\ ServiceInit /\ WebQuiet /\ RepairQuiet
  /\ ConcurrentQuiet /\ ProbeQuiet /\ TaskQuiet

SpecService == SpecServiceInit /\ [][ServiceNext]_vars

SpecBulk == SpecServiceInit /\ [][BulkNext]_vars

SpecDegradedInit ==
  DegradedInit /\ LLMQuiet /\ CacheQuiet /\ SearchIdle /\ WebQuiet /\ RepairQuiet
  /\ ConcurrentQuiet /\ ProbeQuiet /\ TaskQuiet

SpecDegraded == SpecDegradedInit /\ [][Parse]_vars

SpecRepairInit ==
  ParseQuiet /\ LLMQuiet /\ CacheQuiet /\ SearchIdle /\ WebQuiet /\ RepairInit
  /\ ConcurrentQuiet /\ ProbeQuiet /\ TaskQuiet

SpecRepair == SpecRepairInit /\ [][Repair]_vars

SpecHealthInit ==
  ParseQuiet /\ HealthInit /\ CacheQuiet /\ SearchIdle /\ WebQuiet /\ RepairQuiet
  /\ ConcurrentQuiet /\ ProbeQuiet /\ TaskQuiet

SpecHealth == SpecHealthInit /\ [][HealthNext]_vars

SpecWebInit ==
  ParseQuiet /\ LLMQuiet /\ CacheQuiet /\ SearchIdle /\ WebInit /\ RepairQuiet
  /\ ConcurrentQuiet /\ ProbeQuiet /\ TaskQuiet

SpecWeb == SpecWebInit /\ [][WebNext]_vars

SpecConcurrentInit ==
  ParseQuiet /\ ConcurrentInit /\ CacheQuiet /\ SearchIdle /\ WebQuiet /\ RepairQuiet
  /\ ProbeQuiet /\ TaskQuiet

SpecConcurrent == SpecConcurrentInit /\ [][ConcurrentNext]_vars

SpecProbeInit ==
  ParseQuiet /\ ProbeInit /\ CacheQuiet /\ SearchIdle /\ WebQuiet /\ RepairQuiet
  /\ ConcurrentQuiet /\ TaskQuiet

SpecProbe == SpecProbeInit /\ [][ProbeNext]_vars

SpecTaskInit ==
  ParseQuiet /\ LLMQuiet /\ CacheQuiet /\ SearchIdle /\ WebQuiet /\ RepairQuiet
  /\ ConcurrentQuiet /\ ProbeQuiet /\ TaskQuiet

SpecTask == SpecTaskInit /\ [][TaskNext]_vars

(***************************************************************************)
(* Properties of the parser and of the provider chain.                     *)
(***************************************************************************)
Count(s, x) == Cardinality({i \in DOMAIN s : s[i] = x})

\* How many times product p of a batch is listed in the categories.
Occurrences(cats, p) ==
  SumSeq([c \in 1..Len(cats) |->
            Cardinality({j \in 1..Len(cats[c].products) : cats[c].products[j].id = p.id})])

\* Every product of the batch is in exactly one category.
Partitions(cats, batch) == \A i \in 1..Len(batch) : Occurrences(cats, batch[i]) = 1

\* C4: whatever the provider's answer, the categories the parser returns hold
\* every product of the batch exactly once.
C4_ParserPartition == parsePc = "done" => Partitions(parseOut, parseBatch)

\* C1: in auto mode, with the keyword provider in the chain, every call ends
\* with success = true and categories that hold every product exactly once.
C1_FallbackTotality ==
  (pc = "done" /\ config.provider = "auto")
    => (result.success /\ Partitions(result.categories, products))

\* C5: in auto mode the providers are taken in the configured fallback order,
\* a provider is taken only after each one before it has failed, and the
\* first success ends the call with that provider's answer.
C5_ProviderOrdering ==
  config.provider = "auto" =>
    /\ Len(tried) <= Len(config.fallbackOrder)
    /\ tried = SubSeq(config.fallbackOrder, 1, Len(tried))
    /\ \A j \in 1..(Len(tried) - 1) :
         /\ Len(failLog) >= j
         /\ failLog[j].provider = tried[j]
         /\ failureCount[tried[j]] > 0
    /\ result.success =>
         /\ pc = "done"
         /\ tried # <<>>
         /\ result.provider = tried[Len(tried)]
         /\ Len(failLog) = Len(tried) - 1

C5_Witness ==
  /\ config.provider = "auto"
  /\ config.fallbackOrder = <<"gemini", "ollama", "keyword">>
  /\ tried = <<"gemini", "ollama", "keyword">>
  /\ netLog # <<>>
  /\ result.success
  /\ result.provider = "keyword"

\* C6 as stated: a provider that was enabled and failed has sent exactly
\* maxRetries generate requests.
C6_ExactlyMaxRetries ==
  \A i \in 1..Len(failLog) :
    failLog[i].reason # "disabled"
      => Count(netLog, failLog[i].provider) = MaxRetriesOf(failLog[i].provider)

\* C6: a provider never sends more than maxRetries generate requests and the
\* next provider is taken only after it has thrown; an enabled gemini that
\* fails has sent exactly maxRetries; ollama that fails has sent exactly
\* maxRetries unless a connection was refused, which ends it at that request,
\* or the health probe failed, which ends it before any generate request.
C6_RetryBudget ==
  /\ \A p \in {"gemini", "ollama"} : Count(netLog, p) <= MaxRetriesOf(p)
  /\ \A i \in 1..Len(failLog) :
       LET f == failLog[i]
           sent == Count(netLog, f.provider)
       IN  /\ f.provider # "keyword"
           /\ f.provider = "gemini" => f.reason \in {"disabled", "exhausted"}
           /\ f.reason = "exhausted" => sent = MaxRetriesOf(f.provider)
           /\ f.reason = "refused" => (f.provider = "ollama" /\ sent >= 1)
           /\ f.reason \in {"probe", "disabled"} => sent = 0
           /\ f.reason = "disabled" =>
                IF f.provider = "gemini"
                THEN ~config.gemini.enabled \/ ~config.gemini.apiKey
                ELSE ~config.ollama.enabled
  /\ \A i \in 1..Len(netLog) : \A j \in i..Len(netLog) :
       \E a \in 1..Len(tried) : \E b \in a..Len(tried) :
          tried[a] = netLog[i] /\ tried[b] = netLog[j]

C6_Witness ==
  /\ config.gemini.maxRetries = MaxRetries
  /\ config.ollama.maxRetries = MaxRetries
  /\ Len(failLog) = 2
  /\ failLog[1] = [provider |-> "gemini", reason |-> "exhausted"]
  /\ failLog[2] = [provider |-> "ollama", reason |-> "refused"]
  /\ netLog = [i \in 1..(MaxRetries + 1) |-> IF i <= MaxRetries THEN "gemini" ELSE "ollama"]

\* C7: a disabled provider is sent no request and its failureCount and
\* totalRequests stay as they were.
C7_DisabledSkip ==
  /\ (~config.gemini.enabled \/ ~config.gemini.apiKey) =>
       /\ Count(netLog, "gemini") = 0
       /\ failureCount["gemini"] = 0
       /\ stats["gemini"].totalRequests = 0
  /\ ~config.ollama.enabled =>
       /\ Count(netLog, "ollama") = 0
       /\ failureCount["ollama"] = 0
       /\ stats["ollama"].totalRequests = 0

\* C8: an answer the structured stages of the parser give up on ends the call
\* with success at that provider and that request: no further request, no
\* later provider, no failure recorded for the provider.
C8_UnparseableIsSuccess ==
  \A i \in 1..Len(answered) :
    LET a == answered[i]
    IN  FailsStructuredParsing(a.resp) =>
          /\ pc = "done"
          /\ result.success
          /\ result.provider = a.provider
          /\ i = Len(answered)
          /\ netLog[Len(netLog)] = a.provider
          /\ Count(netLog, a.provider) = attempt
          /\ tried[Len(tried)] = a.provider
          /\ failureCount[a.provider] = 0
          /\ stats[a.provider].successCount = stats[a.provider].totalRequests
          /\ \A j \in 1..Len(failLog) : failLog[j].provider # a.provider

C8_Witness ==
  /\ pc = "done"
  /\ result.success
  /\ result.provider = "ollama"
  /\ attempt = MaxRetries
  /\ Len(answered) = 1
  /\ answered[1].provider = "ollama"
  /\ answered[1].resp.parse = "fail"

\* C12: in every category a classification returns, whichever path built
\* it (structured parse, degraded parse, keyword rules), priceRange.min and
\* priceRange.max are the least and the greatest positive price of its
\* members and priceRange.avg is the rounded mean of exactly those positive
\* prices, all three 0 when no member has a positive price.
C12_PriceRange ==
  (pc = "done" /\ result.success) =>
    \A i \in 1..Len(result.categories) :
      result.categories[i].priceRange = PriceStats(result.categories[i].products)

\* C24: when the answer parses to a categories array, an entry of a
\* category's productIndexes that is negative or not below the batch size is
\* dropped and the parse goes on: the answer gives as many categories as it
\* lists, and the members of each category are exactly the products at its
\* in-range indices, in the listed order, whatever the other categories list.
C24_OutOfRangeDropped ==
  (/\ parsePc = "done"
   /\ parseResp.braces /\ parseResp.parse # "fail" /\ parseResp.hasCategories
   /\ ~HasNullEntry(parseResp.cats))
    => /\ Len(parseOut) = Len(parseResp.cats)
       /\ \A c \in 1..Len(parseResp.cats) :
            parseResp.cats[c].kind = "indexes" =>
              LET idx == parseResp.cats[c].idx
                  inRange == {i \in 1..Len(idx) : idx[i] >= 0 /\ idx[i] < Len(parseBatch)}
                  members == parseOut[c].products
              IN  /\ Len(members) = Cardinality(inRange)
                  /\ parseOut[c].totalProducts = Cardinality(inRange)
                  /\ \A i \in inRange :
                       members[Cardinality({j \in inRange : j <= i})] = parseBatch[idx[i] + 1]

\* An answer of two categories over two products: the first lists an index
\* past the end and then product 0, the second lists nothing.
C24_Witness ==
  /\ parsePc = "done"
  /\ Len(parseBatch) = 2
  /\ parseResp.braces /\ parseResp.parse = "strict" /\ parseResp.hasCategories
  /\ Len(parseResp.cats) = 2
  /\ parseResp.cats[1].kind = "indexes" /\ parseResp.cats[1].idx = <<2, 0>>
  /\ parseResp.cats[2].kind = "indexes" /\ parseResp.cats[2].idx = <<>>
  /\ parseOut[1].products = <<parseBatch[1]>>
  /\ parseOut[2].products = <<>>

\* C25: on an answer that cannot be read as JSON, when k >= 1 category names
\* are found in the text the n products are split into k contiguous slices,
\* in batch order, whose sizes differ by at most one and which together hold
\* every product once; when no name is found the result is one category
\* holding all n products.
C25_DegradedParser ==
  (parsePc = "done" /\ (~parseResp.braces \/ parseResp.parse = "fail")) =>
    LET k == parseResp.names
        size == [c \in 1..Len(parseOut) |-> Len(parseOut[c].products)]
    IN  IF k >= 1
        THEN /\ Len(parseOut) = k
             /\ SumSeq(size) = Len(parseBatch)
             /\ \A c \in 1..k :
                  LET before == SumSeq(SubSeq(size, 1, c - 1))
                  IN  parseOut[c].products = SubSeq(parseBatch, before + 1, before + size[c])
             /\ \A c, d \in 1..k : size[c] - size[d] <= 1
        ELSE /\ Len(parseOut) = 1
             /\ parseOut[1].products = parseBatch

\* C26: repairJSON on a text that JSON.parse accepts returns the value of
\* parsing that very text, and none of the repair steps has been applied.
C26_RepairIdempotence ==
  (parsedData # NotCalled /\ JSONparse(jsonString).ok) =>
    parsedData = RepairReturned(JSONparse(jsonString).value, <<>>)

\* The valid text ",]" (a string, quotes included): step 1 would take its
\* comma away.
C26_Witness ==
  /\ jsonString = <<"quote", "comma", "rbracket", "quote">>
  /\ parsedData = RepairReturned(jsonString, <<>>)

\* C23: when Gemini is enabled and answers 429 to every request, Ollama is
\* disabled and keyword is the last provider of the fallback order, the call
\* returns provider keyword with categories that cover every product, each
\* once, and Gemini's failureCount after the call is at least Gemini's
\* maxRetries.
C23_RateLimited ==
  (/\ pc = "done"
   /\ config.provider = "auto"
   /\ config.gemini.enabled /\ config.gemini.apiKey
   /\ ~config.ollama.enabled
   /\ config.fallbackOrder # <<>>
   /\ config.fallbackOrder[Len(config.fallbackOrder)] = "keyword"
   /\ rateLimited
   /\ Count(netLog, "gemini") = config.gemini.maxRetries)
    => /\ result.success
       /\ result.provider = "keyword"
       /\ Partitions(result.categories, products)
       /\ failureCount["gemini"] >= config.gemini.maxRetries

\* C28: between two consecutive failed attempts Gemini waits its configured
\* retryDelay, the same at every attempt, and Ollama waits a delay that grows
\* linearly with the attempt number: after failed attempt n, n times its
\* retryDelay.
C28_RetryBackoff ==
  /\ waited.provider = "gemini" => waited.delay = config.gemini.retryDelay
  /\ waited.provider = "ollama" => waited.delay = waited.attempt * config.ollama.retryDelay

\* C29: once a provider's failureCount has reached the configured
\* fallbackThreshold, a call sends it no request: the provider is treated as
\* down and the call goes on to the next provider.
C29_FallbackThreshold ==
  [][\A p \in {"gemini", "ollama"} :
       (Len(netLog') > Len(netLog) /\ netLog'[Len(netLog')] = p)
         => failureCount[p] < config.fallbackThreshold]_vars

C32_KeywordRules ==
  [][(Len(tried') > Len(tried) /\ tried'[Len(tried')] = "keyword")
       => /\ netLog' = netLog
          /\ probes' = probes
          /\ pc' = "done"
          /\ result'.success
          /\ result'.provider = "keyword"
          /\ LET cats == result'.categories
             IN  /\ Partitions(cats, products)
                 /\ SumSeq([c \in 1..Len(cats) |-> Len(cats[c].products)]) = Len(products)
                 /\ \A c \in 1..Len(cats) :
                      LET listed == cats[c].products
                      IN  /\ \A j \in 1..Len(listed) :
                               /\ listed[j] = products[listed[j].id]
                               /\ cats[c].name = CatName(keywordMatch(listed[j].name, searchQuery), 0)
                          /\ \A j \in 1..(Len(listed) - 1) : listed[j].id < listed[j + 1].id
                 /\ cats = useKeywordMatching(products, searchQuery)]_vars

\* The keyword rules have grouped a batch of two products with the same
\* label, after Gemini was sent a request and failed.
C32_Witness ==
  /\ pc = "done"
  /\ tried # <<>>
  /\ tried[Len(tried)] = "keyword"
  /\ netLog # <<>>
  /\ failLog # <<>>
  /\ Len(products) = 2
  /\ Len(result.categories) = 1
  /\ Len(result.categories[1].products) = 2
  /\ result.categories[1].products = products

\* C33: with concurrent calls on the service, in every step and for every
\* provider: successCount is at most totalRequests; successCount is the
\* number of recordSuccess calls made for it and totalRequests that number
\* plus the number of recordFailure calls; a recordSuccess leaves its
\* failureCount at 0 and a recordFailure adds exactly 1 to it; a provider for
\* which the step records nothing keeps its failureCount and its counters.
C33_HealthState ==
  [][\A p \in Providers :
       /\ stats'[p].successCount <= stats'[p].totalRequests
       /\ stats'[p].successCount = recorded'[p].successes
       /\ stats'[p].totalRequests = recorded'[p].successes + recorded'[p].failures
       /\ recorded'[p].successes > recorded[p].successes => failureCount'[p] = 0
       /\ recorded'[p].failures > recorded[p].failures
            => failureCount'[p] = failureCount[p] + 1
       /\ recorded'[p] = recorded[p]
            => failureCount'[p] = failureCount[p] /\ stats'[p] = stats[p]]_vars

\* While one call, which Gemini has failed, waits for Ollama's answer,
\* another call has started, been answered by Gemini and returned: Gemini's
\* streak is back at 0 with one success and one failure recorded.
C33_Witness ==
  /\ \E c, d \in ConcurrentCalls :
       /\ calls[c].pc = "ollama"
       /\ calls[c].pi = 2
       /\ calls[d].pc = "done"
  /\ config.fallbackOrder[1] = "gemini"
  /\ recorded["gemini"] = [successes |-> 1, failures |-> 1]
  /\ recorded["ollama"] = [successes |-> 0, failures |-> 0]
  /\ failureCount["gemini"] = 0
  /\ stats["gemini"] = [successCount |-> 1, totalRequests |-> 2]

\* C36: a useOllama call whose probe fails has sent no generate request and
\* ends failed at once; a call sends a probe only when no probe answered 200
\* was sent less than healthCheckInterval before; a failed probe leaves
\* lastHealthCheck as it was.
C36_HealthGating ==
  [][\A c \in OllamaCalls :
       /\ (ollamaCalls[c].pc = "probe" /\ ollamaCalls'[c].pc = "failed")
            => /\ ollamaCalls'[c].requests = 0
               /\ lastHealthCheck' = lastHealthCheck
       /\ (ollamaCalls[c].pc = "idle" /\ ollamaCalls'[c].pc = "probe")
            => clock - probedAt >= HealthCheckInterval]_vars

(***************************************************************************)
(* Properties of the classification cache.                                 *)
(***************************************************************************)
\* C9: right after set(p, c, ctx) a get(p, ctx) returns c, also when the set
\* evicted an entry.
C9_RoundTrip ==
  lastCall.op = "set" => Lookup(cache, lastCall.key, clock) = lastCall.category

\* C10: get returns a miss for an entry whose expireAt is earlier than the
\* time of the get, and removes it; a label it returns is the label of an
\* entry that is not expired at that time.
C10_NoExpiredHit ==
  lastCall.op = "get" =>
    /\ (lastCall.saw # <<>> /\ lastCall.saw[1].expireAt < lastCall.at) =>
          /\ lastCall.returned = Null
          /\ IndexOfKey(cache, lastCall.key) = 0
    /\ lastCall.returned # Null =>
          /\ lastCall.saw # <<>>
          /\ lastCall.returned = lastCall.saw[1].category
          /\ lastCall.at <= lastCall.saw[1].expireAt
          /\ lastCall.saw[1].expireAt <= lastCall.saw[1].createdAt + cacheConfig.ttl

C10_Witness ==
  /\ lastCall.op = "get"
  /\ lastCall.saw # <<>>
  /\ lastCall.saw[1].expireAt + 1 = lastCall.at
  /\ lastCall.returned = Null
  /\ cacheStats.misses = 1

\* C11: after every set the cache holds at most maxSize entries, whatever
\* the keys and whatever the clock reads, several sets within one clock
\* tick included.
C11_CapacityBound ==
  lastCall.op = "set" => Len(cache) <= cacheConfig.maxSize

\* C34: batchGet returns every product of its input in exactly one of
\* cached and uncached, each list in input order; a product reported as
\* cached has an entry under the key of (its name, the context) that is not
\* expired when its get reads the clock, and the reported category is that
\* entry's.
C34_BatchGetSplit ==
  lastCall.op = "batchGet" =>
    LET prods == lastCall.products
        hit == lastCall.cached
        miss == lastCall.uncached
    IN  /\ \A i \in 1..Len(prods) :
             Cardinality({j \in 1..Len(hit) : hit[j].product.id = prods[i].id})
               + Cardinality({j \in 1..Len(miss) : miss[j].id = prods[i].id}) = 1
        /\ Len(hit) + Len(miss) = Len(prods)
        /\ \A j \in 1..Len(hit) : hit[j].product = prods[hit[j].product.id]
        /\ \A j \in 1..Len(miss) : miss[j] = prods[miss[j].id]
        /\ \A j \in 1..(Len(hit) - 1) : hit[j].product.id < hit[j + 1].product.id
        /\ \A j \in 1..(Len(miss) - 1) : miss[j].id < miss[j + 1].id
        /\ \A j \in 1..Len(hit) :
             \E e \in 1..Len(lastCall.before) :
               /\ lastCall.before[e].key
                    = generateCacheKey(hit[j].product.name, lastCall.queryContext)
               /\ lastCall.times[hit[j].product.id] <= lastCall.before[e].expireAt
               /\ hit[j].category = lastCall.before[e].category

\* A batch of two products with one name, whose entry expires between the
\* two reads: the first is reported cached, the second uncached.
C34_Witness ==
  /\ lastCall.op = "batchGet"
  /\ Len(lastCall.products) = 2
  /\ lastCall.products[1].name = lastCall.products[2].name
  /\ Len(lastCall.cached) = 1
  /\ lastCall.cached[1].product = lastCall.products[1]
  /\ lastCall.uncached = <<lastCall.products[2]>>
  /\ lastCall.times[1] < lastCall.times[2]
  /\ cache = <<>>
  /\ cacheStats = [hits |-> 1, misses |-> 1, sets |-> 1]

\* C35: a set(p, c, ctxA) that evicts no entry leaves what get(p2, ctxB)
\* returns as it was, for every (p2, ctxB) other than (p, ctxA); so one
\* product name set under two different contexts keeps a label for each.
C35_ContextIsolation ==
  [][(/\ lastCall'.op = "set"
      /\ \A i \in 1..Len(cache) : IndexOfKey(cache', cache[i].key) # 0)
       => \A cp \in CachedProducts :
            cp # <<lastCall'.productName, lastCall'.queryContext>>
              => Lookup(cache', generateCacheKey(cp[1], cp[2]), clock')
                   = Lookup(cache, generateCacheKey(cp[1], cp[2]), clock')]_vars

(***************************************************************************)
(* Properties of the crawl and of the search pipeline.                     *)
(***************************************************************************)
RequestedPlatforms ==
  IF request.filters.given THEN request.filters.platforms ELSE DefaultPlatforms

\* Platform i of the request returned products.
ReturnedProducts(i) ==
  settled[i].status = "fulfilled" /\ settled[i].success /\ settled[i].products # <<>>

\* The ids of the products a crawl result carries, wherever it carries them.
ResultProductIds(r) ==
  {r.products[i].id : i \in 1..Len(r.products)}
    \cup UNION {{r.platformResults[i].products[j].id :
                   j \in 1..Len(r.platformResults[i].products)} :
                i \in 1..Len(r.platformResults)}
    \cup UNION {{r.categories[i].products[j].id :
                   j \in 1..Len(r.categories[i].products)} :
                i \in 1..Len(r.categories)}

\* C2: a search in category mode for which a platform returned products
\* returns and does not throw, and when gemini and ollama both failed the
\* categories are those of the keyword provider.
C2_GracefulDegradation ==
  (spc = "done" /\ request.categorySummary
     /\ \E i \in 1..Len(settled) : ReturnedProducts(i))
    => /\ searchOut.status = "returned"
       /\ Len(failLog) = 2 => (result.success /\ result.provider = "keyword")

\* C3: when a platform fails while another returns products, the result of
\* CrawlerManager.searchProducts carries every product of the platform that
\* returned them and lists the failed platform with a reason.
C3_CrawlIsolation ==
  cpc = "done" =>
    \A i \in 1..Len(settled) : \A j \in 1..Len(settled) :
      (~(settled[i].status = "fulfilled" /\ settled[i].success) /\ ReturnedProducts(j))
        => /\ \A k \in 1..Len(settled[j].products) :
                settled[j].products[k].id \in ResultProductIds(crawlResult)
           /\ \E f \in 1..Len(crawlResult.failedPlatforms) :
                /\ crawlResult.failedPlatforms[f].platform = RequestedPlatforms[i]
                /\ crawlResult.failedPlatforms[f].error # ""

C30_StableIdentity ==
  /\ \A i \in 1..Len(settled) : \A k \in 1..Len(settled[i].products) :
       LET p == settled[i].products[k]
       IN  p.id # NoId /\ p.id = generateProductId(p.name, RequestedPlatforms[i], k)
  /\ (cpc = "done" /\ crawlResult.success) =>
       \A c \in 1..Len(crawlResult.categories) :
         \A j \in 1..Len(crawlResult.categories[c].products) :
           LET q == crawlResult.categories[c].products[j]
           IN  \E i \in 1..Len(settled) : \E k \in 1..Len(settled[i].products) :
                 /\ settled[i].products[k].name = q.name
                 /\ settled[i].products[k].price = q.price
                 /\ settled[i].products[k].id = q.id
                 /\ q.id # NoId

\* C14: when every requested platform's fetch fails (its promise rejects or
\* its crawler answers success = false), CrawlerManager.searchProducts
\* returns success = true with no product and no category, and its
\* failedPlatforms lists every requested platform, in the requested order.
AllSourcesFailed ==
  \A i \in 1..Len(settled) : ~(settled[i].status = "fulfilled" /\ settled[i].success)

C14_AllSourcesFail ==
  (cpc = "done" /\ AllSourcesFailed) =>
    /\ crawlResult.success
    /\ crawlResult.totalProducts = 0
    /\ crawlResult.products = <<>>
    /\ crawlResult.categories = <<>>
    /\ [i \in 1..Len(crawlResult.failedPlatforms) |-> crawlResult.failedPlatforms[i].platform]
         = RequestedPlatforms

C14_Witness ==
  /\ cpc = "done"
  /\ RequestedPlatforms = <<"momo", "pchome">>
  /\ settled[1].status = "rejected"
  /\ settled[2] = Unsuccessful("")
  /\ crawlResult.success
  /\ Len(crawlResult.failedPlatforms) = 2

\* C15: with an empty platforms list CrawlerManager.searchProducts returns
\* success with no product, and searchProducts in category mode returns
\* exactly one category, which is empty, rather than an error or an empty
\* list of categories.
C15_NoSources ==
  (spc = "done" /\ request.filters.given /\ request.filters.platforms = <<>>) =>
    /\ crawlResult.success
    /\ crawlResult.totalProducts = 0
    /\ request.categorySummary =>
         /\ searchOut.status = "returned"
         /\ Len(searchOut.categories) = 1
         /\ searchOut.categories[1].totalProducts = 0
         /\ searchOut.categories[1].products = <<>>

(***************************************************************************)
(* Properties of searchService over several calls.                         *)
(***************************************************************************)
\* C13: in every category searchProducts returns, totalProducts is the
\* length of the category's products list.
C13_TotalProducts ==
  (served.op = "search" /\ searchOut.status = "returned") =>
    \A i \in 1..Len(searchOut.categories) :
      searchOut.categories[i].totalProducts = Len(searchOut.categories[i].products)

C17_FullListCached ==
  (served.wrote /\ crawlResult.success) =>
    LET searched == IF served.op = "category" THEN CategoryRequest(served.categoryName)
                    ELSE request
        full == CategorizedProducts(searched, crawlResult)
    IN  \A i \in 1..Len(searchCache) :
          searchCache[i].key \in {cacheKeyOf(request), cacheKeyOf(searched)}
            => searchCache[i].products = full

\* C18: after any searchProducts or getCategoryProducts call the cache holds
\* at most 100 entries.
C18_CacheBound ==
  served.op # "none" => Len(searchCache) <= SearchCacheLimit

\* C19: getCategoryProducts works on what is already in the cache: it runs
\* no crawl and no classification and writes no cache entry.
C19_CategoryReadOnly ==
  served.op = "category" => (crawlResult = NoCrawl /\ ~served.wrote)

\* C37: every entry of searchCache holds the result of a search for the
\* query, filters and sort of its key: after any sequence of searchProducts
\* and getCategoryProducts calls, no entry under the key of a query holds the
\* result of a search for another term.
C37_KeyIntegrity ==
  \A i \in 1..Len(searchCache) :
    /\ searchCache[i].source.query = searchCache[i].key.query
    /\ cacheKeyOf(searchCache[i].source) = searchCache[i].key

\* C38: a searchProducts call with categorySummary that is answered from the
\* cache is answered from an entry that a search with categorySummary
\* stored.
C38_ModeConsistentHit ==
  (served.op = "search" /\ searchOut.status = "returned" /\ searchOut.fromCache) =>
    LET at == IndexOfKey(searchCache, cacheKeyOf(request))
    IN  /\ at # 0
        /\ request.categorySummary => searchCache[at].source.categorySummary

\* C20: CrawlerManager.searchProducts returns in the end, also when a
\* platform's fetch never settles: every crawl that has started its fetches
\* comes to its return.
C20_NoHang == (cpc = "fetch") ~> (cpc = "done")

\* C40: in every result CrawlerManager.searchProducts returns with success,
\* each requested platform is in exactly one of platformResults and
\* failedPlatforms, and summary.successfulPlatforms and
\* summary.failedPlatforms add up to the number of requested platforms, also
\* when a platform succeeded with no product.
C40_CrawlAccounting ==
  (cpc = "done" /\ crawlResult.success) =>
    LET succeeded == {crawlResult.platformResults[i].platform :
                        i \in 1..Len(crawlResult.platformResults)}
        failed == {crawlResult.failedPlatforms[i].platform :
                     i \in 1..Len(crawlResult.failedPlatforms)}
    IN  /\ \A i \in 1..Len(RequestedPlatforms) :
             (RequestedPlatforms[i] \in succeeded) # (RequestedPlatforms[i] \in failed)
        /\ crawlResult.summary.successfulPlatforms + crawlResult.summary.failedPlatforms
             = Len(RequestedPlatforms)

(***************************************************************************)
(* Properties of the renderer session.                                     *)
(***************************************************************************)
\* C21: whenever a searchViaWeb call has ended, however it ended (with the
\* products, with a scraping error or timeout, with a failure inside init
\* after the browser was launched, with a failure while closing the page),
\* and no other call is in flight on the crawler, the crawler holds no
\* browser and no page: this.browser = null and this.page = null.
C21_SessionReleased ==
  \A c \in WebCalls :
     (/\ web[c].pc = "done"
      /\ \A d \in WebCalls \ {c} : web[d].pc \in {"idle", "done"})
       => (thisBrowser = NullHandle /\ thisPage = NullHandle)

\* C22: while a call is at work on its page (setting it up or scraping), no
\* step of another call on the crawler closes the page or the browser it
\* works on, and none sets this.page or this.browser to null: a call's
\* cleanup releases that call's session only.
C22_SessionsNotShared ==
  [][\A d \in WebCalls :
       (web[d].pc \in {"setup", "scrape"} /\ web'[d] = web[d]) =>
         /\ chrome[web[d].target].open => chrome'[web[d].target].open
         /\ thisPage # NullHandle => thisPage' # NullHandle
         /\ thisBrowser # NullHandle => thisBrowser' # NullHandle]_vars

(***************************************************************************)
(* Properties of the crawler tasks.                                        *)
(***************************************************************************)
\* C39: once stopCrawler has set a task's status to stopped, no step changes
\* it while the task is in the history: neither the timer that starts the
\* simulated execution nor the end of the awaited run moves a stopped task
\* to running, success or error.
C39_StoppedIsFinal ==
  [][\A crawlerId \in CrawlerIds :
       StatusOf(crawlerHistory, crawlerId) = "stopped"
         => StatusOf(crawlerHistory', crawlerId) \in {"stopped", "none"}]_vars

====
